---- MODULE Spec2Model ----
(***************************************************************************)
(* A model of rq, an interactive terminal front-end for jq.                *)
(*                                                                         *)
(*   - ScrollState (scroll_state.rs) and the u16 helpers of any.rs         *)
(*   - Any::substring (any.rs), the grapheme-column extraction             *)
(*   - JqProcess (jq_process.rs), one external computation                 *)
(*   - App (app.rs), the event loop and the reconciliation of results      *)
(*                                                                         *)
(* Each part has its own specification over its own variables; the         *)
(* variables of the other parts stay at their idle value.                  *)
(***************************************************************************)
EXTENDS Integers, Sequences, FiniteSets, TLC

VARIABLES
    scroll_state,   \* ScrollState { offset, content_size, page_size }
    line,           \* the text Any::substring is applied to, as grapheme clusters
    sub_call,       \* the last substring call(s) and what they returned
    jq_process,     \* one JqProcess::run_helper: child, pipe, read and write futures
    app,            \* App: jq_output, query text, scroll view states, position of run()
    clock,          \* the monotonic clock Instant::now() reads
    procs,          \* the spawned JqProcess tasks, in spawn order
    channel,        \* the unbounded channel of JqOutput, sender -> receiver
    delivered,      \* the tasks whose result update_jq_output received, in order
    lines,          \* Lines { content, line_ranges, scroll_state }
    frame,          \* what the last Lines::render_scroll_view drew
    mouse           \* the last mouse event a ScrollState handled, and the state before it

vars == <<scroll_state, line, sub_call, jq_process, app, clock, procs,
          channel, delivered, lines, frame, mouse>>

scrollVars == <<scroll_state>>
substrVars == <<line, sub_call>>
procVars == <<jq_process>>
appVars == <<app, clock, procs, channel, delivered>>
renderVars == <<lines, frame, mouse>>

Idle == "idle"

Min(a, b) == IF a <= b THEN a ELSE b

Max(a, b) == IF a >= b THEN a ELSE b

(***************************************************************************)
(* u16 arithmetic (any.rs, num::traits::SaturatingAdd / SaturatingSub)     *)
(***************************************************************************)
U16_MAX == 65535

saturating_add(a, b) == Min(a + b, U16_MAX)

saturating_sub(a, b) == Max(a - b, 0)

\* A saturating add that forgets the maximum.
saturating_add_no_max(self, rhs, max_value) == saturating_add(self, rhs)

\* *self = self.saturating_add(&rhs).min(max_value)
saturating_add_in_place_with_max(self, rhs, max_value) ==
    Min(saturating_add(self, rhs), max_value)

\* *self = self.saturating_sub(&rhs).min(max_value)
saturating_sub_in_place_with_max(self, rhs, max_value) ==
    Min(saturating_sub(self, rhs), max_value)

(***************************************************************************)
(* ScrollState (scroll_state.rs)                                           *)
(***************************************************************************)
FAST_SCROLL_COUNT == 5

NORMAL_SCROLL_COUNT == 1

\* Bounds of the sizes the scroll specification draws.
MaxContent == 3

MaxPage == 2

Position(x, y) == [x |-> x, y |-> y]

Size(w, h) == [width |-> w, height |-> h]

ORIGIN == Position(0, 0)

\* ScrollState::new
ScrollState_new(content_size) ==
    [offset |-> ORIGIN, content_size |-> content_size, page_size |-> Size(1, 1)]

set_offset(s, offset) == [s EXCEPT !.offset = offset]

\* A set_page_size that also puts the view back at the origin.
set_page_size_resets_offset(s, page_size) ==
    [s EXCEPT !.page_size = page_size, !.offset = ORIGIN]

set_page_size(s, page_size) == [s EXCEPT !.page_size = page_size]

max_offset_y(s) == saturating_sub(s.content_size.height, s.page_size.height)

max_offset_x(s) == saturating_sub(s.content_size.width, s.page_size.width)

scroll_up(s, count) ==
    [s EXCEPT !.offset.y = saturating_sub_in_place_with_max(@, count, max_offset_y(s))]

scroll_down(s, count) ==
    [s EXCEPT !.offset.y = saturating_add_in_place_with_max(@, count, max_offset_y(s))]

scroll_left(s, count) ==
    [s EXCEPT !.offset.x = saturating_sub_in_place_with_max(@, count, max_offset_x(s))]

scroll_right(s, count) ==
    [s EXCEPT !.offset.x = saturating_add_in_place_with_max(@, count, max_offset_x(s))]

\* The content and page sizes drawn: every small size, and one content that is
\* as tall (as wide) as a u16 allows, where the saturating add saturates.
SmallContentSizes == {Size(w, h) : w \in 0..MaxContent, h \in 0..MaxContent}

HugeContentSizes == {Size(1, U16_MAX), Size(U16_MAX, 1)}

PageSizes == {Size(w, h) : w \in 0..MaxPage, h \in 0..MaxPage}

\* The counts a caller passes: unit, large, a page along the axis, and the
\* largest u16.
ScrollCounts(page_extent) == {NORMAL_SCROLL_COUNT, FAST_SCROLL_COUNT, page_extent, U16_MAX}

ScrollInit ==
    /\ scroll_state \in
           {set_page_size(ScrollState_new(c), p) : c \in SmallContentSizes, p \in PageSizes}
           \cup {set_page_size(ScrollState_new(hc), Size(1, 1)) : hc \in HugeContentSizes}
    /\ lines = Idle /\ frame = Idle /\ mouse = Idle
    /\ line = Idle /\ sub_call = Idle
    /\ jq_process = Idle
    /\ app = Idle /\ clock = 0 /\ procs = <<>> /\ channel = <<>> /\ delivered = <<>>

ScrollUp ==
    /\ \E count \in ScrollCounts(scroll_state.page_size.height) :
           scroll_state' = scroll_up(scroll_state, count)
    /\ UNCHANGED <<renderVars, substrVars, procVars, appVars>>

ScrollDown ==
    /\ \E count \in ScrollCounts(scroll_state.page_size.height) :
           scroll_state' = scroll_down(scroll_state, count)
    /\ UNCHANGED <<renderVars, substrVars, procVars, appVars>>

ScrollLeft ==
    /\ \E count \in ScrollCounts(scroll_state.page_size.width) :
           scroll_state' = scroll_left(scroll_state, count)
    /\ UNCHANGED <<renderVars, substrVars, procVars, appVars>>

ScrollRight ==
    /\ \E count \in ScrollCounts(scroll_state.page_size.width) :
           scroll_state' = scroll_right(scroll_state, count)
    /\ UNCHANGED <<renderVars, substrVars, procVars, appVars>>

ScrollNext ==
    \/ ScrollUp
    \/ ScrollDown
    \/ ScrollLeft
    \/ ScrollRight

\* A ScrollState with a fixed content size and a fixed page size, scrolled.
SpecScroll == ScrollInit /\ [][ScrollNext]_vars

\* C2: with the content size and the page size fixed, after any sequence of
\* scroll_up / scroll_down / scroll_left / scroll_right calls from the origin,
\* 0 <= offset.x <= max(0, C.width - P.width) and
\* 0 <= offset.y <= max(0, C.height - P.height).
C2_ClampingInvariant ==
    LET s == scroll_state IN
    /\ 0 <= s.offset.x
    /\ s.offset.x <= Max(0, s.content_size.width - s.page_size.width)
    /\ 0 <= s.offset.y
    /\ s.offset.y <= Max(0, s.content_size.height - s.page_size.height)

\* The offset stands on a non-zero maximum of the tallest content a u16 allows:
\* a scroll_down from the origin was clamped onto it (255 pages of 1 and the
\* unit and large counts cannot reach it without the clamp: U16_MAX can).
C2_Witness ==
    /\ scroll_state.content_size.height = U16_MAX
    /\ scroll_state.offset.y = U16_MAX - scroll_state.page_size.height
    /\ scroll_state.offset.y > 0

(***************************************************************************)
(* Any::substring (any.rs): a column range, in grapheme clusters, of a     *)
(* line.  A line is a sequence of grapheme clusters, each the UTF-8 bytes  *)
(* of its scalars; the &str is their concatenation.                        *)
(***************************************************************************)
\* "a" (one byte), U+00E9 (one scalar of two bytes), "e" followed by the
\* combining acute accent U+0301 (two scalars, three bytes).  Each starts with
\* a base character, so a concatenation segments into these clusters again.
Graphemes == {<<97>>, <<195, 169>>, <<101, 204, 129>>}

\* Bound: the number of grapheme clusters in a line.
MaxGraphemes == 3

Lines == UNION {[1..n -> Graphemes] : n \in 0..MaxGraphemes}

RECURSIVE Flatten(_)
Flatten(ss) == IF ss = <<>> THEN <<>> ELSE Head(ss) \o Flatten(Tail(ss))

\* The &str of a line.
as_ref(l) == Flatten(l)

\* str::grapheme_indices(true): each cluster with the byte index it starts at.
grapheme_indices(l) ==
    [i \in 1..Len(l) |-> [idx |-> Len(Flatten(SubSeq(l, 1, i - 1))), substr |-> l[i]]]

\* str::is_char_boundary: the ends, or a byte that is no UTF-8 continuation byte.
is_char_boundary(text, index) ==
    \/ index = 0
    \/ index = Len(text)
    \/ index < Len(text) /\ text[index + 1] \notin 128..191

\* Iterator::skip and Iterator::take
skip(it, n) == SubSeq(it, n + 1, Len(it))

\* A take that yields one item even when asked for none.
take_at_least_one(it, n) == SubSeq(it, 1, Min(Max(n, 1), Len(it)))

take(it, n) == SubSeq(it, 1, Min(n, Len(it)))

None == [some |-> FALSE]

Some(v) == [some |-> TRUE, value |-> v]

\* Any::first_and_last: next(), then last() of what is left.
first_and_last(it) ==
    IF it = <<>> THEN None
    ELSE LET first == Head(it)
             rest == Tail(it)
         IN  IF rest = <<>> THEN Some(<<first, first>>)
             ELSE Some(<<first, rest[Len(rest)]>>)

\* RangeBounds: b..e, b.. and ..e
Included(i) == [bound |-> "Included", idx |-> i]

Excluded(i) == [bound |-> "Excluded", idx |-> i]

Unbounded == [bound |-> "Unbounded", idx |-> 0]

Range(b, e) == [start |-> Included(b), end |-> Excluded(e)]

RangeFrom(b) == [start |-> Included(b), end |-> Unbounded]

\* Any::indices
indices(range, text) ==
    LET begin == CASE range.start.bound = "Included" -> range.start.idx
                   [] range.start.bound = "Excluded" -> range.start.idx + 1
                   [] OTHER -> 0
        end == CASE range.end.bound = "Included" -> range.end.idx + 1
                 [] range.end.bound = "Excluded" -> range.end.idx
                 [] OTHER -> Len(text)
    IN  <<begin, end>>

\* What indexing a &str returns: the slice, or a panic.
Str(bytes) == [panic |-> FALSE, str |-> bytes]

Panic == [panic |-> TRUE, str |-> <<>>]

\* &text[begin_idx..=last_idx]: the bytes begin_idx .. last_idx + 1; it panics
\* unless both ends are character boundaries in range.
index_range_inclusive(text, begin_idx, last_idx) ==
    IF /\ begin_idx <= last_idx + 1
       /\ last_idx + 1 <= Len(text)
       /\ is_char_boundary(text, begin_idx)
       /\ is_char_boundary(text, last_idx + 1)
    THEN Str(SubSeq(text, begin_idx + 1, last_idx + 1))
    ELSE Panic

\* Any::substring
substring(l, range) ==
    LET text == as_ref(l)
        be == indices(range, text)
        begin == be[1]
        end == be[2]
        len == Max(end - begin, 0)
        fl == first_and_last(take(skip(grapheme_indices(l), begin), len))
    IN  IF fl.some
        THEN index_range_inclusive(text, fl.value[1].idx, fl.value[2].idx)
        ELSE Str(<<>>)

SubstrInit ==
    /\ line \in Lines
    /\ sub_call = [op |-> "none", begin |-> 0, end |-> 0, ret |-> Str(<<>>), tail |-> Str(<<>>)]
    /\ scroll_state = Idle
    /\ lines = Idle /\ frame = Idle /\ mouse = Idle
    /\ jq_process = Idle
    /\ app = Idle /\ clock = 0 /\ procs = <<>> /\ channel = <<>> /\ delivered = <<>>

\* line.substring(begin..end)
Substring ==
    /\ \E begin \in 0..(MaxGraphemes + 1), end \in 0..(MaxGraphemes + 1) :
           sub_call' = [op |-> "substring", begin |-> begin, end |-> end,
                        ret |-> substring(line, Range(begin, end)), tail |-> Str(<<>>)]
    /\ UNCHANGED <<line, scrollVars, renderVars, procVars, appVars>>

\* line.substring(0..n) and line.substring(n..)
SubstringSplit ==
    /\ \E n \in 0..Len(line) :
           sub_call' = [op |-> "split", begin |-> 0, end |-> n,
                        ret |-> substring(line, Range(0, n)),
                        tail |-> substring(line, RangeFrom(n))]
    /\ UNCHANGED <<line, scrollVars, renderVars, procVars, appVars>>

SubstrNext ==
    \/ Substring
    \/ SubstringSplit

\* Any::substring applied to every line of up to MaxGraphemes clusters.
SpecSubstr == SubstrInit /\ [][SubstrNext]_vars

\* C3: for every line and every n with 0 <= n <= number of clusters,
\* substring(0..n) concatenated with substring(n..) is the line.
C3_SplitConcat ==
    sub_call.op = "split" =>
        /\ ~sub_call.ret.panic
        /\ ~sub_call.tail.panic
        /\ sub_call.ret.str \o sub_call.tail.str = as_ref(line)

\* C4: for every non-empty in-range column range [b, e), substring returns
\* the bytes from the first byte of cluster b through the last byte of cluster
\* min(e, count) - 1, and does not fail on a byte that is no boundary.
C4_WholeClusters ==
    (sub_call.op = "substring" /\ sub_call.begin < sub_call.end /\ sub_call.begin < Len(line)) =>
        /\ ~sub_call.ret.panic
        /\ sub_call.ret.str =
               Flatten(SubSeq(line, sub_call.begin + 1, Min(sub_call.end, Len(line))))

(***************************************************************************)
(* JqProcess::run_helper (jq_process.rs): one external computation.  The   *)
(* child writes its output to a pipe chunk by chunk; the read future moves *)
(* what is in the pipe into content; the write future feeds the input,     *)
(* drops stdin and sleeps POST_WRITE_SLEEP_DURATION; select races the two. *)
(***************************************************************************)
\* Bound: the number of chunks the external program writes.
MaxChunks == 2

\* A chunk is a sequence of bytes.  "utf8" is a chunk that is valid UTF-8 by
\* itself (0x61), "bytes" one that is valid nowhere (0xFF), "lead" the first
\* byte of a two-byte character (0xC3) and "trail" its second byte (0xA9):
\* a character split between two chunks.
Chunks == {"utf8", "bytes", "lead", "trail"}

Outputs == UNION {[1..n -> Chunks] : n \in 0..MaxChunks}

\* The input bytes given to the external program: none, or some.
Inputs == {<<>>, <<"x">>}

\* What the external program writes to its stderr, as chunks: nothing, a
\* message that is valid UTF-8, or bytes that are not.
Stderrs == {<<>>, <<"utf8">>, <<"bytes">>}

\* Whether the bytes of the chunks from position i on, taken together, are
\* valid UTF-8.
RECURSIVE valid_utf8(_, _)
valid_utf8(content, i) ==
    IF i > Len(content) THEN TRUE
    ELSE CASE content[i] = "utf8" -> valid_utf8(content, i + 1)
           [] content[i] = "lead" ->
                  /\ i < Len(content)
                  /\ content[i + 1] = "trail"
                  /\ valid_utf8(content, i + 2)
           [] OTHER -> FALSE

Ok(v) == [ok |-> TRUE, value |-> v]

Err(e) == [ok |-> FALSE, error |-> e]

\* Vec<u8>::into_string (String::from_utf8)
into_string(content) ==
    IF valid_utf8(content, 1) THEN Ok(content) ELSE Err("FromUtf8Error")

\* Self::select(read, write) as run_helper uses it at its line 129.  The two
\* futures fix what it can return: read is a loop around read_buf that is
\* left only by the ? of a failed read, and a read of 0 bytes at the end of
\* the stream is an Ok that keeps it looping, so read completes with Err or
\* not at all; write completes with Ok after its sleep, or with Err.  The
\* Ok that run_helper needs to go on can therefore come from write alone,
\* and it says nothing of the stream having ended.  An Err of either future
\* is the Err of the select.
select(read, write) ==
    CASE write \in {"ok", "err"} -> write
      [] read = "err" -> "err"
      [] OTHER -> "pending"

ProcInit ==
    /\ \E out \in Outputs, input \in Inputs, stderr \in Stderrs :
           jq_process = [pc |-> "spawn", output |-> out, input |-> input,
                         stderr |-> stderr,
                         child |-> "none", written |-> 0,
                         nread |-> 0, stdout_open |-> FALSE, read |-> "pending",
                         write |-> "pending", stdin |-> "none", result |-> None]
    /\ scroll_state = Idle
    /\ lines = Idle /\ frame = Idle /\ mouse = Idle
    /\ line = Idle /\ sub_call = Idle
    /\ app = Idle /\ clock = 0 /\ procs = <<>> /\ channel = <<>> /\ delivered = <<>>

\* let mut child = self.command.spawn()?; the two pipes are taken and the two
\* futures made.
ProcSpawn ==
    /\ jq_process.pc = "spawn"
    /\ \/ jq_process' = [jq_process EXCEPT !.pc = "select", !.child = "running",
                                            !.stdout_open = TRUE, !.stdin = "open"]
       \/ jq_process' = [jq_process EXCEPT !.pc = "done", !.result = Some(Err("spawn"))]
    /\ UNCHANGED <<scrollVars, renderVars, substrVars, appVars>>

\* The external program writes its next chunk to its stdout.
ChildWrite ==
    /\ jq_process.child = "running"
    /\ jq_process.written < Len(jq_process.output)
    /\ jq_process.stdout_open
    /\ jq_process' = [jq_process EXCEPT !.written = @ + 1]
    /\ UNCHANGED <<scrollVars, renderVars, substrVars, appVars>>

\* The external program writes to a pipe whose read end is closed: it ends
\* unsuccessfully (SIGPIPE).
ChildBrokenPipe ==
    /\ jq_process.child = "running"
    /\ jq_process.written < Len(jq_process.output)
    /\ ~jq_process.stdout_open
    /\ jq_process' = [jq_process EXCEPT !.child = "exited_failure"]
    /\ UNCHANGED <<scrollVars, renderVars, substrVars, appVars>>

\* The external program has written all of its output and exits with status 0.
ChildExitSuccess ==
    /\ jq_process.child = "running"
    /\ jq_process.written = Len(jq_process.output)
    /\ jq_process' = [jq_process EXCEPT !.child = "exited_success"]
    /\ UNCHANGED <<scrollVars, renderVars, substrVars, appVars>>

\* The external program exits with a non-zero status.
ChildExitFailure ==
    /\ jq_process.child = "running"
    /\ jq_process' = [jq_process EXCEPT !.child = "exited_failure"]
    /\ UNCHANGED <<scrollVars, renderVars, substrVars, appVars>>

\* JqProcess::read: one stdout.read_buf(content).await? of the loop, which
\* appends some of what the pipe holds, or fails.
ProcRead ==
    /\ jq_process.pc = "select"
    /\ jq_process.read = "pending"
    /\ \/ \E n \in (jq_process.nread + 1)..jq_process.written :
              jq_process' = [jq_process EXCEPT !.nread = n]
       \/ jq_process' = [jq_process EXCEPT !.read = "err"]
    /\ UNCHANGED <<scrollVars, renderVars, substrVars, appVars>>

\* JqProcess::write: stdin.write_all_and_flush(input).await? and drop(stdin).
\* Writing bytes to a child that is gone fails (broken pipe); writing no
\* byte makes no system call and does not fail.
ProcWrite ==
    /\ jq_process.pc = "select"
    /\ jq_process.write = "pending"
    /\ jq_process.stdin = "open"
    /\ \/ /\ jq_process.child = "running" \/ jq_process.input = <<>>
          /\ jq_process' = [jq_process EXCEPT !.stdin = "dropped"]
       \/ /\ jq_process.child # "running"
          /\ jq_process.input # <<>>
          /\ jq_process' = [jq_process EXCEPT !.write = "err"]
    /\ UNCHANGED <<scrollVars, renderVars, substrVars, appVars>>

\* JqProcess::write: the sleep of POST_WRITE_SLEEP_DURATION is over; Ok(()).
ProcWriteSleepOver ==
    /\ jq_process.pc = "select"
    /\ jq_process.write = "pending"
    /\ jq_process.stdin = "dropped"
    /\ jq_process' = [jq_process EXCEPT !.write = "ok"]
    /\ UNCHANGED <<scrollVars, renderVars, substrVars, appVars>>

\* Self::select(read, write).await?: both futures are dropped, and with the
\* read future the read end of the child's stdout.
ProcSelect ==
    /\ jq_process.pc = "select"
    /\ select(jq_process.read, jq_process.write) # "pending"
    /\ jq_process' =
           IF select(jq_process.read, jq_process.write) = "ok"
           THEN [jq_process EXCEPT !.pc = "wait", !.stdout_open = FALSE]
           ELSE [jq_process EXCEPT !.pc = "done", !.stdout_open = FALSE,
                                   !.result = Some(Err("io"))]
    /\ UNCHANGED <<scrollVars, renderVars, substrVars, appVars>>

\* What run_helper makes of the exited child: the status is checked, and on
\* a status that is not success the stderr is converted to be the message of
\* the error, which fails in its turn on a stderr that is not UTF-8; on
\* success the content read so far is converted and becomes the JqOutput to
\* send.
run_helper_result(child, stderr, content) ==
    IF child # "exited_success"
    THEN IF into_string(stderr).ok THEN Err("stderr") ELSE into_string(stderr)
    ELSE into_string(content)

\* child.wait_with_output().await?, anyhow::ensure!, JqOutput::new, and
\* self.jq_outputs_sender.send(jq_output)?.  The wait itself can fail (with
\* SIGCHLD ignored the child is reaped before it is waited for), and that
\* error leaves run_helper before the status is looked at.  Otherwise the
\* result is made from the status, the stderr and the content.
\* UnboundedSender::send fails once the receiver, which the App owns, has
\* been dropped: the result is Ok only if the JqOutput was made and the App
\* was still there to be sent it.
ProcWait ==
    /\ jq_process.pc = "wait"
    /\ jq_process.child \in {"exited_success", "exited_failure"}
    /\ \/ jq_process' = [jq_process EXCEPT !.pc = "done", !.result = Some(Err("io"))]
       \/ \E receiver \in {"open", "dropped"} :
             LET made == run_helper_result(jq_process.child, jq_process.stderr,
                                           SubSeq(jq_process.output, 1, jq_process.nread))
             IN  jq_process' =
                     [jq_process EXCEPT
                         !.pc = "done",
                         !.result = Some(IF made.ok /\ receiver = "dropped"
                                         THEN Err("SendError") ELSE made)]
    /\ UNCHANGED <<scrollVars, renderVars, substrVars, appVars>>

ProcNext ==
    \/ ProcSpawn
    \/ ChildWrite
    \/ ChildBrokenPipe
    \/ ChildExitSuccess
    \/ ChildExitFailure
    \/ ProcRead
    \/ ProcWrite
    \/ ProcWriteSleepOver
    \/ ProcSelect
    \/ ProcWait

\* One run of JqProcess::run_helper against every output of up to MaxChunks chunks.
SpecProc == ProcInit /\ [][ProcNext]_vars

\* C8: the content of a successful computation's result is everything the
\* external program wrote to its output up to end-of-stream, in every
\* interleaving of the read and the write future.
C8_CompleteOutput ==
    (jq_process.result.some /\ jq_process.result.value.ok) =>
        jq_process.result.value.value = SubSeq(jq_process.output, 1, jq_process.written)

(***************************************************************************)
(* Texts as sequences of grapheme clusters, each a sequence of bytes, and  *)
(* ScrollView (scroll.rs), the content a JqOutput holds.                   *)
(***************************************************************************)
NL == <<10>>

\* A carriage return and a line feed: one cluster of two bytes.
CRLF == <<13, 10>>

LineEndings == {NL, CRLF}

\* The byte index just after the first k clusters of a text.
ByteIdx(text, k) == Len(Flatten(SubSeq(text, 1, k)))

\* A split at every line ending: the piece after the last one counts even if
\* it is empty, so an empty text is one empty line.
str_lines_keeps_last_piece(content) ==
    LET n == Len(content)
        nls == {k \in 1..n : content[k] \in LineEndings}
        m == Cardinality(nls)
        nl(j) == CHOOSE k \in nls : Cardinality({x \in nls : x <= k}) = j
    IN  [j \in 1..(m + 1) |->
            [first |-> IF j = 1 THEN 1 ELSE nl(j - 1) + 1,
             last |-> IF j <= m THEN nl(j) - 1 ELSE n]]

\* str::lines: the pieces between line endings (a line feed, or a carriage
\* return and a line feed, neither of which is part of the line), as cluster
\* ranges; a last piece that is empty is not a line.
str_lines(content) ==
    LET n == Len(content)
        nls == {k \in 1..n : content[k] \in LineEndings}
        m == Cardinality(nls)
        nl(j) == CHOOSE k \in nls : Cardinality({x \in nls : x <= k}) = j
        count == IF m = 0 THEN (IF n > 0 THEN 1 ELSE 0)
                 ELSE IF nl(m) < n THEN m + 1 ELSE m
    IN  [j \in 1..count |->
            [first |-> IF j = 1 THEN 1 ELSE nl(j - 1) + 1,
             last |-> IF j <= m THEN nl(j) - 1 ELSE n]]

\* Any::byte_range of a line in its content
byte_range(content, piece) ==
    [start |-> ByteIdx(content, piece.first - 1), end |-> ByteIdx(content, piece.last)]

\* Any::cast to u16: the value, or the largest u16 if it does not fit.
cast(v) == Min(v, U16_MAX)

\* ScrollView::new
ScrollView_new ==
    [content |-> <<>>, line_ranges |-> <<>>, offset |-> ORIGIN,
     page_size |-> Size(0, 0), content_width |-> 0]

\* ScrollView::push_line: the line is appended with a CR LF after it, and
\* its byte range and its width are recorded.
push_line(sv, text) ==
    LET begin == Len(Flatten(sv.content))
    IN  [sv EXCEPT !.content_width = Max(@, cast(Len(text))),
                   !.line_ranges = Append(@, [start |-> begin,
                                              end |-> begin + Len(Flatten(text))]),
                   !.content = @ \o text \o <<CRLF>>]

\* FromIterator for ScrollView: push_line for every line, in order.
RECURSIVE from_iter(_, _)
from_iter(sv, texts) ==
    IF texts = <<>> THEN sv ELSE from_iter(push_line(sv, Head(texts)), Tail(texts))

\* ScrollView::content_size
ScrollView_content_size(sv) == Size(sv.content_width, cast(Len(sv.line_ranges)))

\* ScrollView::take_content: the content is moved out and the view is a new
\* one.
take_content(sv) == [content |-> sv.content, rest |-> ScrollView_new]

(***************************************************************************)
(* App (app.rs): the event loop.  run() selects over the render tick and   *)
(* the input event stream; each edit of the query spawns a JqProcess task, *)
(* which sends its JqOutput on the channel; update_jq_output, on the tick, *)
(* takes one JqOutput off the channel and keeps it if it is newer.         *)
(***************************************************************************)
\* Bounds: the tasks spawned in a session, the length of the query, the
\* largest scroll offset of a pane.
MaxProcs == 2

MaxQueryLen == 1

MaxOffset == 1

\* The characters typed into the query.  Queries are told apart by their
\* length and by the instant of their task, so one letter is enough.
Chars == {"a"}

DEFAULT_QUERY == <<".">>

\* Instant::now(): the clock is monotonic, and every reading is later than
\* the readings before it.
Instant_now(clk) == clk + 1

\* JqOutput::new: content.lines().collect() into a ScrollView.
JqOutput_new(instant, content) ==
    LET pieces == str_lines(content)
    IN  [instant |-> instant,
         scroll_view |-> from_iter(ScrollView_new,
                                   [j \in 1..Len(pieces) |->
                                       SubSeq(content, pieces[j].first, pieces[j].last)])]

\* The text a JqOutput holds.
JqOutput_value(jq) == jq.scroll_view.content

\* An empty JqOutput stamped one reading of the clock later, as if it were
\* made after the first task was built.
JqOutput_empty_stamped_after_first_build(clk) ==
    JqOutput_new(Instant_now(Instant_now(clk)), <<>>)

\* JqOutput::empty: stamped with the time of its construction.
JqOutput_empty(clk) == JqOutput_new(Instant_now(clk), <<>>)

\* The bytes of a character of a query.
bytes_of(c) == CASE c = "a" -> <<97>> [] c = "b" -> <<98>> [] c = "." -> <<46>>

\* The text the external program prints for a query: one line that tells
\* the queries apart, ended by a line feed, written to the pipe in one piece.
content_of(query) == [i \in 1..Len(query) |-> bytes_of(query[i])] \o <<NL>>

\* The key events told apart by handle_event and by TextState.
Keys ==
    {[code |-> "Char", char |-> c] : c \in Chars}
    \cup {[code |-> k, char |-> ""] : k \in {"Backspace", "Left", "Right", "Tab", "Enter"}}

\* TextState::handle_key_event: a character is inserted at the cursor,
\* Backspace removes the one before it, Left and Right move it; Enter and Tab
\* leave value and position alone.
TextState_handle_key_event(ts, key) ==
    LET v == ts.value
        pos == ts.position
    IN  CASE key.code = "Char" ->
                 [value |-> SubSeq(v, 1, pos) \o <<key.char>> \o SubSeq(v, pos + 1, Len(v)),
                  position |-> pos + 1]
          [] key.code = "Backspace" ->
                 IF pos = 0 THEN ts
                 ELSE [value |-> SubSeq(v, 1, pos - 1) \o SubSeq(v, pos + 1, Len(v)),
                       position |-> pos - 1]
          [] key.code = "Left" -> [ts EXCEPT !.position = Max(pos - 1, 0)]
          [] key.code = "Right" -> [ts EXCEPT !.position = Min(pos + 1, Len(v))]
          [] OTHER -> ts

\* A hash code that is the same for every value.
hash_code_same_for_all(value) == <<>>

\* Any::hash_code of the value: no two values of the model collide.
hash_code(value) == value

\* JqProcessBuilder::build: the instant is read first, on the caller's path.
build(clk, query) ==
    [instant |-> Instant_now(clk),
     query |-> IF query = <<>> THEN DEFAULT_QUERY ELSE query,
     status |-> "running",
     content |-> <<>>]

\* A run_helper that stamps its JqOutput when it finishes.
run_helper_stamps_at_finish(p, clk, outcome, nread) ==
    LET content == SubSeq(content_of(p.query), 1, nread)
    IN  [sent |-> IF outcome = "success"
                  THEN <<JqOutput_new(Instant_now(clk), content)>>
                  ELSE <<>>,
         content |-> content,
         clock |-> Instant_now(clk)]

\* A run that reports a failure as an empty JqOutput.
run_helper_sends_on_failure(p, clk, outcome, nread) ==
    LET content == SubSeq(content_of(p.query), 1, nread)
    IN  [sent |-> IF outcome = "success"
                  THEN <<JqOutput_new(p.instant, content)>>
                  ELSE <<JqOutput_new(p.instant, <<>>)>>,
         content |-> content,
         clock |-> clk]

\* JqProcess::run / run_helper, as the loop sees it: what the task sends on
\* the channel.  The content is what the read future had taken of the
\* program's output when select returned, its first nread clusters: all of
\* it, or nothing when the write future finished its sleep first.  A failure
\* (spawn error, pipe error, non-zero status, stderr or content that is not
\* UTF-8) returns before the send and is logged; the clock is not read.
run_helper(p, clk, outcome, nread) ==
    LET content == SubSeq(content_of(p.query), 1, nread)
    IN  [sent |-> IF outcome = "success"
                  THEN <<JqOutput_new(p.instant, content)>>
                  ELSE <<>>,
         content |-> content,
         clock |-> clk]

Outcomes == {"success", "spawn_error", "io_error", "exit_status", "from_utf8_error"}

\* An update_jq_output that keeps whatever arrives last.
update_jq_output_keeps_latest(a, received) ==
    IF received.some
    THEN [a EXCEPT !.received = received, !.jq_output = received.value]
    ELSE [a EXCEPT !.received = received]

\* An update_jq_output that also keeps a result of the same instant.
update_jq_output_keeps_equal(a, received) ==
    IF received.some /\ a.jq_output.instant <= received.value.instant
    THEN [a EXCEPT !.received = received, !.jq_output = received.value]
    ELSE [a EXCEPT !.received = received]

\* An update_jq_output that puts the output pane back at the origin.
update_jq_output_resets_offset(a, received) ==
    IF received.some /\ a.jq_output.instant < received.value.instant
    THEN [a EXCEPT !.received = received, !.jq_output = received.value,
                   !.output_scroll_view_state = ORIGIN]
    ELSE [a EXCEPT !.received = received]

\* App::update_jq_output, given what try_recv returned: None for an empty
\* channel.  a.received records it for the tick under way.
update_jq_output(a, received) ==
    IF received.some /\ a.jq_output.instant < received.value.instant
    THEN [a EXCEPT !.received = received, !.jq_output = received.value]
    ELSE [a EXCEPT !.received = received]

\* JqOutput::take_value: the text is moved out of the ScrollView, and a new
\* ScrollView is left behind.
take_value(jq) ==
    [value |-> take_content(jq.scroll_view).content,
     rest |-> [jq EXCEPT !.scroll_view = take_content(jq.scroll_view).rest]]

\* UnboundedReceiver::try_recv
try_recv(ch) == IF ch = <<>> THEN None ELSE Some(Head(ch))

\* The offsets a ScrollViewState is left with by a render: the widget may
\* pull an offset back toward the origin, never push it away.
ClampedOffsets(offset) ==
    {Position(x, y) : x \in 0..offset.x, y \in 0..offset.y}

\* App::handle_mouse_event on the ScrollViewState the position selects.
\* pages is the page height the state recorded at the last render.
ScrollViewState_scroll(offset, kind, control, pages) ==
    CASE kind = "ScrollDown" /\ control -> [offset EXCEPT !.y = Min(@ + pages, MaxOffset)]
      [] kind = "ScrollUp" /\ control -> [offset EXCEPT !.y = Max(@ - pages, 0)]
      [] kind = "ScrollDown" -> [offset EXCEPT !.y = Min(@ + 1, MaxOffset)]
      [] kind = "ScrollUp" -> [offset EXCEPT !.y = Max(@ - 1, 0)]
      [] kind = "ScrollLeft" -> [offset EXCEPT !.x = Max(@ - 1, 0)]
      [] kind = "ScrollRight" -> [offset EXCEPT !.x = Min(@ + 1, MaxOffset)]
      [] OTHER -> offset

MouseEventKinds == {"ScrollDown", "ScrollUp", "ScrollLeft", "ScrollRight", "Moved"}

\* A handle_mouse_event that scrolls the output pane wherever the mouse is.
handle_mouse_event_always_output(a, where, kind, control, pages) ==
    IF a.rect_set = "empty" THEN a
    ELSE [a EXCEPT !.output_scroll_view_state =
                       ScrollViewState_scroll(@, kind, control, pages)]

\* Where a mouse position lies: in rect_set.input, in rect_set.output, or in
\* neither.  RectSet::empty() contains no position.
handle_mouse_event(a, where, kind, control, pages) ==
    IF a.rect_set = "empty" THEN a
    ELSE CASE where = "input" ->
                  [a EXCEPT !.input_scroll_view_state =
                                ScrollViewState_scroll(@, kind, control, pages)]
           [] where = "output" ->
                  [a EXCEPT !.output_scroll_view_state =
                                ScrollViewState_scroll(@, kind, control, pages)]
           [] OTHER -> a

\* What run() returned.
Returned(how, r) == Some([how |-> how, result |-> r])

\* App::new
App_new(clk) ==
    [pc |-> "start",
     jq_output |-> JqOutput_empty(clk),
     query_text_state |-> [value |-> <<>>, position |-> 0],
     input_scroll_view_state |-> ORIGIN,
     output_scroll_view_state |-> ORIGIN,
     rect_set |-> "empty",
     received |-> None,
     returned |-> None]

AppInit ==
    /\ app = App_new(0)
    /\ clock = Instant_now(0)
    /\ procs = <<>>
    /\ channel = <<>>
    /\ delivered = <<>>
    /\ scroll_state = Idle
    /\ lines = Idle /\ frame = Idle /\ mouse = Idle
    /\ line = Idle /\ sub_call = Idle
    /\ jq_process = Idle

\* App::spawn_jq_process: build, then tokio::spawn of run().
spawn_jq_process(ps, clk, query) == Append(ps, build(clk, query))

\* run(): Terminal::new()?, then the first task, for the empty query.
AppStart ==
    /\ app.pc = "start"
    /\ \/ /\ app' = [app EXCEPT !.pc = "select"]
          /\ procs' = spawn_jq_process(procs, clock, <<>>)
          /\ clock' = Instant_now(clock)
       \/ /\ app' = [app EXCEPT !.pc = "done", !.returned = Returned("error", Err("io"))]
          /\ UNCHANGED <<procs, clock>>
    /\ UNCHANGED <<channel, delivered, scrollVars, renderVars, substrVars, procVars>>

\* The tick arm of the select: self.update_jq_output().
AppTick ==
    /\ app.pc = "select"
    /\ app' = [update_jq_output(app, try_recv(channel)) EXCEPT !.pc = "render"]
    /\ channel' = IF channel = <<>> THEN channel ELSE Tail(channel)
    /\ delivered' = IF channel = <<>> THEN delivered ELSE Append(delivered, Head(channel))
    /\ UNCHANGED <<clock, procs, scrollVars, renderVars, substrVars, procVars>>

\* The tick arm, continued: terminal.draw(|frame| self.render(frame))?.
AppRender ==
    /\ app.pc = "render"
    /\ \/ \E i \in ClampedOffsets(app.input_scroll_view_state),
             o \in ClampedOffsets(app.output_scroll_view_state) :
              app' = [app EXCEPT !.pc = "select", !.rect_set = "laid_out",
                                 !.received = None,
                                 !.input_scroll_view_state = i,
                                 !.output_scroll_view_state = o]
       \/ app' = [app EXCEPT !.pc = "done", !.received = None,
                             !.returned = Returned("error", Err("io"))]
    /\ UNCHANGED <<clock, procs, channel, delivered, scrollVars, renderVars, substrVars, procVars>>

\* The event arm: a key event other than Ctrl-Q, App::handle_key_event up to
\* its sleep.  An edit that changes the value spawns a task for the new value.
AppKey ==
    /\ app.pc = "select"
    /\ \E key \in Keys :
          LET ts == TextState_handle_key_event(app.query_text_state, key)
              changed == hash_code(app.query_text_state.value) # hash_code(ts.value)
              next_pc == IF key.code = "Enter" THEN "sleep" ELSE "select"
          IN  /\ Len(ts.value) <= MaxQueryLen
              /\ changed => Len(procs) < MaxProcs
              /\ \/ /\ app' = [app EXCEPT !.query_text_state = ts, !.pc = next_pc]
                    /\ procs' = IF changed THEN spawn_jq_process(procs, clock, ts.value)
                                 ELSE procs
                    /\ clock' = IF changed THEN Instant_now(clock) ELSE clock
                 \/ /\ changed
                    /\ app' = [app EXCEPT !.query_text_state = ts, !.pc = "done",
                                          !.returned = Returned("error", Err("io"))]
                    /\ UNCHANGED <<procs, clock>>
    /\ UNCHANGED <<channel, delivered, scrollVars, renderVars, substrVars, procVars>>

\* A commit that waits until no task is running.
AppCommit_waits_for_tasks ==
    /\ app.pc = "sleep"
    /\ \A i \in 1..Len(procs) : procs[i].status # "running"
    /\ app' = [app EXCEPT !.pc = "done",
                          !.jq_output = take_value(app.jq_output).rest,
                          !.returned = Returned("commit", Ok(take_value(app.jq_output).value))]
    /\ UNCHANGED <<clock, procs, channel, delivered, scrollVars, renderVars, substrVars, procVars>>

\* handle_key_event after Enter: the sleep of INTERVAL_DURATION is over, and
\* self.jq_output.take_value() is the output of the session.
AppCommit ==
    /\ app.pc = "sleep"
    /\ app' = [app EXCEPT !.pc = "done",
                          !.jq_output = take_value(app.jq_output).rest,
                          !.returned = Returned("commit", Ok(take_value(app.jq_output).value))]
    /\ UNCHANGED <<clock, procs, channel, delivered, scrollVars, renderVars, substrVars, procVars>>

\* A Ctrl-Q arm that hands out the current output, as Enter does.
handle_event_quit_keeps_output(a) == Ok(JqOutput_value(a.jq_output))

\* App::handle_event, the Ctrl-Q arm: String::new().some().ok()
handle_event_quit(a) == Ok(<<>>)

\* An event arm that takes the end of the stream for a commit.
event_stream_failed_commits(a, e) == Ok(JqOutput_value(a.jq_output))

\* App::run, the event arm: anyhow::bail! if the stream ended, event_res? if
\* it yielded an error.
event_stream_failed(a, e) == Err(e)

\* What becomes of the steps of CliArgs::run before App::run: both succeed,
\* or init_tracing or App::new fails.
SetupOutcomes == {"ok", "init_tracing_failed", "App_new_failed"}

\* What becomes of the output step of CliArgs::run: the output file is
\* created and written, or its creation or the write fails.
OutputOutcomes == {"ok", "create_failed", "write_failed"}

\* CliArgs::run: init_tracing().await? and App::new(..).await? leave with
\* their error before the App runs, and App::run().await? leaves with the
\* error of the App; an output value is written to the output file or to
\* stdout, and a failure to create or to write it leaves with that error.
\* write_all of an empty value and the flush after it write nothing, so
\* only a value that is not empty can fail to be written.  written is the
\* value once it is written as a whole.
CliArgs_run(setup, result, output) ==
    IF setup # "ok" THEN [status |-> "failure", written |-> None]
    ELSE IF ~result.ok THEN [status |-> "failure", written |-> None]
    ELSE IF output = "create_failed" THEN [status |-> "failure", written |-> None]
    ELSE IF output = "write_failed" /\ result.value # <<>>
         THEN [status |-> "failure", written |-> None]
    ELSE [status |-> "success", written |-> Some(result.value)]

\* The event arm: Ctrl-Q.
AppQuit ==
    /\ app.pc = "select"
    /\ app' = [app EXCEPT !.pc = "done", !.returned = Returned("quit", handle_event_quit(app))]
    /\ UNCHANGED <<clock, procs, channel, delivered, scrollVars, renderVars, substrVars, procVars>>

\* The event arm: a mouse event.
AppMouse ==
    /\ app.pc = "select"
    /\ \E where \in {"input", "output", "elsewhere"}, kind \in MouseEventKinds,
          control \in BOOLEAN, pages \in 1..MaxOffset :
          app' = handle_mouse_event(app, where, kind, control, pages)
    /\ UNCHANGED <<clock, procs, channel, delivered, scrollVars, renderVars, substrVars, procVars>>

\* The event arm: the stream ended, or yielded an error.
AppEventStreamFails ==
    /\ app.pc = "select"
    /\ \E e \in {"event stream ended unexpectedly", "io"} :
           app' = [app EXCEPT !.pc = "done",
                              !.returned = Returned("event_stream", event_stream_failed(app, e))]
    /\ UNCHANGED <<clock, procs, channel, delivered, scrollVars, renderVars, substrVars, procVars>>

\* A spawned task runs JqProcess::run to its end.
ProcRun ==
    /\ app.pc # "done"
    /\ \E i \in 1..Len(procs), outcome \in Outcomes :
       \E nread \in {0, Len(content_of(procs[i].query))} :
          LET r == run_helper(procs[i], clock, outcome, nread)
          IN  /\ procs[i].status = "running"
              /\ procs' = [procs EXCEPT ![i].status =
                                IF outcome = "success" THEN "finished" ELSE "failed",
                                        ![i].content =
                                IF outcome = "success" THEN r.content ELSE @]
              /\ channel' = channel \o r.sent
              /\ clock' = r.clock
    /\ UNCHANGED <<app, delivered, scrollVars, renderVars, substrVars, procVars>>

Next ==
    \/ AppStart
    \/ AppTick
    \/ AppRender
    \/ AppKey
    \/ AppCommit
    \/ AppQuit
    \/ AppMouse
    \/ AppEventStreamFails
    \/ ProcRun

\* A session of the application.
Spec == AppInit /\ [][Next]_vars

\* The result a finished task sent: what it had read of the program's output.
ResultOf(p) == JqOutput_new(p.instant, p.content)

\* C1: of the results update_jq_output has received, the current one is the
\* one with the latest start instant, whatever the order they arrived in: for
\* two results stamped t1 < t2, both received, it is the one stamped t2.
C1_LastWriterWins ==
    (app.pc # "done" /\ delivered # <<>>) =>
        \E l \in 1..Len(delivered) :
            /\ app.jq_output = delivered[l]
            /\ \A k \in 1..Len(delivered) : delivered[k].instant <= delivered[l].instant

\* The result stamped t1 arrived after the one stamped t2 > t1 had been
\* applied, and the current result is still the one stamped t2.
C1_Witness ==
    /\ app.pc = "render"
    /\ Len(delivered) = 2
    /\ delivered[2].instant < delivered[1].instant
    /\ app.received = Some(delivered[2])
    /\ app.jq_output = delivered[1]

\* C5: on Enter, if the result of the most recently spawned computation was
\* sent on the channel before the sleep of the grace interval ended, the
\* output the session returns is that result's content.
C5_CommitReflectsLatest ==
    (/\ app.returned.some
     /\ app.returned.value.how = "commit"
     /\ procs # <<>>
     /\ procs[Len(procs)].status = "finished") =>
        app.returned.value.result.value = JqOutput_value(ResultOf(procs[Len(procs)]))

\* C6: when update_jq_output replaces the current result by a newer one, the
\* scroll offset of the output pane is the same after the replacement as before.
C6_OffsetSurvivesReplacement ==
    [][(app.pc = "select" /\ app'.pc = "render" /\ app'.jq_output # app.jq_output) =>
           app'.output_scroll_view_state = app.output_scroll_view_state]_vars

\* A second result has just replaced the first one while the output pane is
\* scrolled away from the origin.
C6_Witness ==
    /\ app.pc = "render"
    /\ Len(delivered) = 2
    /\ app.received = Some(delivered[2])
    /\ app.jq_output = delivered[2]
    /\ app.output_scroll_view_state # ORIGIN

\* C9: a task that fails (program not found, non-zero status, output that is
\* not UTF-8) changes neither the current result nor the loop: the App and the
\* channel are the same after the failure as before, and the loop, when it is
\* at its select, can still take a tick.
C9_FailureLeavesLoopAlone ==
    /\ [][(\E i \in 1..Len(procs) : procs[i].status = "running" /\ procs'[i].status = "failed")
             => (app' = app /\ channel' = channel)]_vars
    /\ []((app.pc = "select" /\ \E i \in 1..Len(procs) : procs[i].status = "failed")
             => ENABLED AppTick)

\* The computation of an edit failed; the loop is back at its select after a
\* render and still shows the result of the first computation.
C9_Witness ==
    /\ app.pc = "select"
    /\ app.rect_set = "laid_out"
    /\ Len(procs) = 2
    /\ procs[2].status = "failed"
    /\ delivered = <<ResultOf(procs[1])>>
    /\ app.jq_output = ResultOf(procs[1])

\* C10: the start instant is read when the task is built, on the loop's path:
\* of two tasks, the one spawned later carries the later instant, and once the
\* results of both have been received the current result is not the earlier
\* task's, whichever finished first.
C10_LaterSpawnWins ==
    \A i, j \in 1..Len(procs) :
        i < j =>
            /\ procs[i].instant < procs[j].instant
            /\ (/\ procs[i].status = "finished"
                /\ procs[j].status = "finished"
                /\ channel = <<>>
                /\ app.pc # "done") =>
                   /\ app.jq_output.instant >= procs[j].instant
                   /\ \E m \in j..Len(procs) :
                          JqOutput_value(app.jq_output) = JqOutput_value(ResultOf(procs[m]))

\* The task of the edit finished first and the task spawned before it second;
\* both results were received, and the edit's result is the current one.
C10_Witness ==
    /\ Len(procs) = 2
    /\ procs[2].query = app.query_text_state.value
    /\ delivered = <<ResultOf(procs[2]), ResultOf(procs[1])>>
    /\ app.jq_output = ResultOf(procs[2])
    /\ app.pc = "select"

(***************************************************************************)
(* update_jq_output on its own: any current result, any results on the     *)
(* channel, equal instants and repeated results among them.                *)
(***************************************************************************)
\* Bounds: the instants and the length of the channel drawn.
MaxInstant == 2

MaxChannel == 2

\* The results drawn: every instant with either of two contents.
ReconResults ==
    {JqOutput_new(t, content_of(<<c>>)) : t \in 0..MaxInstant, c \in {"a", "b"}}

ReconInit ==
    /\ \E cur \in ReconResults, off \in ClampedOffsets(Position(MaxOffset, MaxOffset)) :
           app = [App_new(0) EXCEPT !.pc = "select", !.rect_set = "laid_out",
                                    !.jq_output = cur, !.output_scroll_view_state = off]
    /\ channel \in UNION {[1..n -> ReconResults] : n \in 0..MaxChannel}
    /\ clock = MaxInstant
    /\ procs = <<>>
    /\ delivered = <<>>
    /\ scroll_state = Idle
    /\ lines = Idle /\ frame = Idle /\ mouse = Idle
    /\ line = Idle /\ sub_call = Idle
    /\ jq_process = Idle

ReconNext ==
    \/ AppTick
    \/ AppRender

SpecRecon == ReconInit /\ [][ReconNext]_vars

\* C7: a received result whose instant is less than or equal to the current
\* result's (the same result a second time included) leaves the current
\* result, its content and the scroll offsets unchanged.
C7_NotNewerDiscarded ==
    [][(/\ app.pc = "select"
        /\ app'.pc = "render"
        /\ channel # <<>>
        /\ Head(channel).instant <= app.jq_output.instant) =>
           /\ app'.jq_output = app.jq_output
           /\ app'.output_scroll_view_state = app.output_scroll_view_state
           /\ app'.input_scroll_view_state = app.input_scroll_view_state]_vars

\* A result was applied; then a result of the same instant and another content
\* was received, and the current result is still the first.
C7_Witness ==
    /\ app.pc = "render"
    /\ Len(delivered) = 2
    /\ app.received = Some(delivered[2])
    /\ delivered[2].instant = delivered[1].instant
    /\ JqOutput_value(delivered[2]) # JqOutput_value(delivered[1])
    /\ app.jq_output = delivered[1]
(***************************************************************************)
(* The session under fair scheduling.  tokio::select! polls its ready arms *)
(* in random order and the interval becomes ready every INTERVAL_DURATION, *)
(* so a tick arm that stays ready is taken; terminal.draw follows          *)
(* update_jq_output in the same arm.                                       *)
(***************************************************************************)
SpecLive == AppInit /\ [][Next]_vars /\ WF_vars(AppTick) /\ WF_vars(AppRender)

\* The successful tasks, and the one of them that was spawned last.
Finished == {i \in 1..Len(procs) : procs[i].status = "finished"}

Converged ==
    /\ channel = <<>>
    /\ \A i \in Finished :
           (\A j \in Finished : j <= i) => app.jq_output = ResultOf(procs[i])

\* C11: if the loop keeps running (the tick keeps firing, the session is not
\* ended) then, edits being finite, every result sent on the channel is
\* eventually received and from then on the current result is that of the
\* successful task with the greatest start instant, in whatever order the
\* tasks finished.
C11_Convergence ==
    (<>[](app.pc \in {"select", "render"})) => <>[]Converged

\* Two tasks finished, the later one first; the earlier one's result was the
\* last thing received, the channel is empty and the later one's is current.
C11_Witness ==
    /\ app.pc = "render"
    /\ Finished = {1, 2}
    /\ channel = <<>>
    /\ app.received = Some(ResultOf(procs[1]))
    /\ app.jq_output = ResultOf(procs[2])

(***************************************************************************)
(* The scroll bars of a pane (scroll_state.rs; scroll.rs has the same):    *)
(* Any::interpolate, which computes in f32, vertical_scroll_bar,           *)
(* render_scroll_bars and ScrollBar::render.                               *)
(***************************************************************************)
Rect(x, y, w, h) == [x |-> x, y |-> y, width |-> w, height |-> h]

\* Rect::contains
contains(rect, position) ==
    /\ position.x >= rect.x /\ position.x < rect.x + rect.width
    /\ position.y >= rect.y /\ position.y < rect.y + rect.height

\* Rect::as_size
as_size(rect) == Size(rect.width, rect.height)

\* Rect::right, Rect::bottom
right(rect) == saturating_add(rect.x, rect.width)

bottom(rect) == saturating_add(rect.y, rect.height)

\* Rect::positions
positions(rect) ==
    {Position(x, y) : x \in rect.x..(rect.x + rect.width - 1),
                      y \in rect.y..(rect.y + rect.height - 1)}

\* Transpose for Rect, Size, Position and ScrollBar
transpose_rect(rect) == Rect(rect.y, rect.x, rect.height, rect.width)

transpose_size(size) == Size(size.height, size.width)

transpose_position(position) == Position(position.y, position.x)

transpose_scroll_bar(sb) ==
    [bar |-> transpose_rect(sb.bar), thumb |-> transpose_rect(sb.thumb),
     nan |-> sb.nan]

\* The f32 an interpolation gives: NaN, or the integer it is after round().
NaN == [nan |-> TRUE, value |-> 0]

F32(v) == [nan |-> FALSE, value |-> v]

\* A max that keeps the number as it is.
f32_max_left_out(f, m) == f.value

\* f32::max: the other operand if one is NaN.
f32_max(f, m) == IF f.nan THEN m ELSE Max(f.value, m)

\* Any::cast of an f32 to u16: NumCast gives None for NaN and for a value out
\* of range, and cast answers the largest u16.
cast_f32_to_u16(f) == IF f.nan THEN U16_MAX ELSE Min(f.value, U16_MAX)

Clamp(v, lo, hi) == Max(lo, Min(v, hi))

\* The bits of the significand of an f32.
F32_MANTISSA_DIGITS == 24

RECURSIVE Pow2(_)
Pow2(n) == IF n = 0 THEN 1 ELSE 2 * Pow2(n - 1)

\* The f32 nearest to (M + R / D) * 2^k, halves to the even significand, for
\* 0 <= R < D and top = 2^24: a significand m <= top and an exponent e, the
\* number m * 2^e.  A significand of more than 24 bits loses its last bit to
\* the remainder; one of fewer bits with a remainder takes the next bit of
\* R / D; a significand of 24 bits is rounded by the remainder.
RECURSIVE f32_nearest(_, _, _, _, _)
f32_nearest(M, R, D, k, top) ==
    IF M >= top THEN f32_nearest(M \div 2, (M % 2) * D + R, 2 * D, k + 1, top)
    ELSE IF R = 0 THEN [m |-> M, e |-> k]
    ELSE IF 2 * M < top
         THEN f32_nearest(2 * M + (2 * R) \div D, (2 * R) % D, D, k - 1, top)
    ELSE [m |-> IF 2 * R > D \/ (2 * R = D /\ M % 2 = 1) THEN M + 1 ELSE M,
          e |-> k]

\* a * b in f32, for u16 values a and b: the product is summed from the high
\* and the low byte of b and rounded once.
f32_mul(a, b) ==
    LET high == a * (b \div 256)
        low == a * (b % 256)
    IN  f32_nearest(high + low \div 256, low % 256, 256, 8, Pow2(F32_MANTISSA_DIGITS))

\* x / d in f32, for an f32 x and a positive u16 value d.
f32_div(x, d) == f32_nearest(x.m \div d, x.m % d, d, x.e, Pow2(F32_MANTISSA_DIGITS))

\* n + x in f32, for a u16 value n and an f32 x.  Bits of x that lie more than
\* 29 places under the unit are far below the last bit of the sum when n is
\* not 0; they are kept as one bit that tells whether any of them is set.
f32_add(n, x) ==
    LET top == Pow2(F32_MANTISSA_DIGITS)
    IN  IF x.m = 0 THEN [m |-> n, e |-> 0]
        ELSE IF n = 0 THEN x
        ELSE IF x.e >= 0
             THEN f32_nearest(x.m + n \div Pow2(x.e), n % Pow2(x.e), Pow2(x.e), x.e, top)
        ELSE IF -x.e <= 30
             THEN f32_nearest(n + x.m \div Pow2(-x.e), x.m % Pow2(-x.e), Pow2(-x.e), 0, top)
        ELSE LET cut == Pow2(-x.e - 29)
             IN  f32_nearest(n, 2 * (x.m \div cut) + (IF x.m % cut = 0 THEN 0 ELSE 1),
                             Pow2(30), 0, top)

\* f32::round of a non-negative f32, halves away from zero; an f32 of 2^16 or
\* more is given as 2^16.
f32_round(x) ==
    IF x.e >= 0
    THEN IF x.m > U16_MAX \/ x.e > 15 THEN (IF x.m = 0 THEN 0 ELSE U16_MAX + 1)
         ELSE Min(x.m * Pow2(x.e), U16_MAX + 1)
    ELSE IF -x.e > 30 THEN 0
    ELSE LET unit == Pow2(-x.e)
         IN  x.m \div unit + (IF 2 * (x.m % unit) >= unit THEN 1 ELSE 0)

\* An interpolate that maps the value as it is, without scaling.
interpolate_unscaled(self, old_min, old_max, new_min, new_max) ==
    F32(Clamp(new_min + Clamp(self, old_min, old_max), new_min, new_max))

\* Any::interpolate on u16 values with old_min <= old_max and
\* new_min <= new_max: the value is clamped into the old range and mapped
\* linearly, new_min + (new_max - new_min) * (old_value - old_min) /
\* (old_max - old_min), each of the product, the quotient and the sum rounded
\* to f32; the result is clamped into the new range and rounded, halves away
\* from zero.  With old_min = old_max the division is of zero by zero, which
\* is NaN.
interpolate(self, old_min, old_max, new_min, new_max) ==
    LET old_value == Clamp(self, old_min, old_max)
        product == f32_mul(new_max - new_min, old_value - old_min)
        new_value == f32_add(new_min, f32_div(product, old_max - old_min))
    IN  IF old_max = old_min THEN NaN
        ELSE F32(Clamp(f32_round(new_value), new_min, new_max))

\* ScrollState::vertical_scroll_bar; nan tells whether an interpolation
\* divided zero by zero.
vertical_scroll_bar(rect, offset, content_size) ==
    LET thumb_height_f32 == interpolate(rect.height, 0, content_size.height, 0, rect.height)
        scroll_thumb_height == f32_max(thumb_height_f32, 1)
        thumb_y_f32 == interpolate(offset.y, 0, content_size.height, rect.y, bottom(rect))
        scroll_thumb_y == cast_f32_to_u16(thumb_y_f32)
        scroll_bar_x == saturating_sub(right(rect), 1)
    IN  [bar |-> Rect(scroll_bar_x, rect.y, 1, rect.height),
         thumb |-> Rect(scroll_bar_x, scroll_thumb_y, 1, Min(scroll_thumb_height, U16_MAX)),
         nan |-> thumb_height_f32.nan \/ thumb_y_f32.nan]

\* ScrollBar::render: the cells of the thumb that the buffer has.
ScrollBar_render(sb, buffer) == {p \in positions(sb.thumb) : contains(buffer, p)}

\* No bar on either axis and no cell styled.
NoBars ==
    [vertical |-> None, horizontal |-> None,
     styled_vertical |-> {}, styled_horizontal |-> {}]

\* A render_scroll_bars that also draws a bar when the content fills the page.
render_scroll_bars_when_content_fills(s, rect, buffer) ==
    LET vertical == IF rect.height <= s.content_size.height
                    THEN Some(vertical_scroll_bar(rect, s.offset, s.content_size))
                    ELSE None
        horizontal == IF rect.width <= s.content_size.width
                      THEN Some(transpose_scroll_bar(
                               vertical_scroll_bar(transpose_rect(rect),
                                                   transpose_position(s.offset),
                                                   transpose_size(s.content_size))))
                      ELSE None
    IN  [vertical |-> vertical, horizontal |-> horizontal,
         styled_vertical |-> IF vertical.some THEN ScrollBar_render(vertical.value, buffer)
                             ELSE {},
         styled_horizontal |-> IF horizontal.some
                               THEN ScrollBar_render(horizontal.value, buffer) ELSE {}]

\* ScrollState::render_scroll_bars: the bar of each axis if it is drawn, and
\* the cells styled for it.
render_scroll_bars(s, rect, buffer) ==
    LET vertical == IF rect.height < s.content_size.height
                    THEN Some(vertical_scroll_bar(rect, s.offset, s.content_size))
                    ELSE None
        horizontal == IF rect.width < s.content_size.width
                      THEN Some(transpose_scroll_bar(
                               vertical_scroll_bar(transpose_rect(rect),
                                                   transpose_position(s.offset),
                                                   transpose_size(s.content_size))))
                      ELSE None
    IN  [vertical |-> vertical, horizontal |-> horizontal,
         styled_vertical |-> IF vertical.some THEN ScrollBar_render(vertical.value, buffer)
                             ELSE {},
         styled_horizontal |-> IF horizontal.some
                               THEN ScrollBar_render(horizontal.value, buffer) ELSE {}]

\* The terminal: one cell wider and taller than the pane reaches.
Buffer(rect) == Rect(0, 0, right(rect) + 1, bottom(rect) + 1)

(***************************************************************************)
(* Lines (lines.rs): a content, the byte ranges of its lines and a         *)
(* ScrollState; render_scroll_view pushes the page size, draws the window  *)
(* and draws the scroll bars.  ScrollView (scroll.rs) draws the same way   *)
(* from its own offset.                                                    *)
(***************************************************************************)
\* Bounds: the lines of a content and the clusters of a line.
MaxLines == 3

MaxLineLen == 2

\* "a" and U+00E9: a cluster of one byte and a cluster of two.
RenderGraphemes == {<<97>>, <<195, 169>>}

RenderLines == UNION {[1..n -> RenderGraphemes] : n \in 0..MaxLineLen}

\* The text of a list of lines: the lines with a line feed between them.
RECURSIVE Join(_)
Join(ls) ==
    IF ls = <<>> THEN <<>>
    ELSE IF Len(ls) = 1 THEN ls[1]
    ELSE ls[1] \o <<NL>> \o Join(Tail(ls))

\* Every text of up to MaxLines lines joined by line feeds, with or without a
\* line feed at its end, and the texts of a line ended by CR LF, alone or with
\* a letter after it.
Contents ==
    {Join(ls) : ls \in UNION {[1..n -> RenderLines] : n \in 0..MaxLines}}
    \cup {l \o <<CRLF>> \o rest : l \in RenderLines, rest \in {<<>>, <<<<97>>>>}}

\* Lines::new
Lines_new(content) ==
    LET pieces == str_lines(content)
        max_graphemes_in_line ==
            IF pieces = <<>> THEN 0
            ELSE CHOOSE g \in 0..Len(content) :
                     /\ \E j \in 1..Len(pieces) : g = pieces[j].last - pieces[j].first + 1
                     /\ \A j \in 1..Len(pieces) : g >= pieces[j].last - pieces[j].first + 1
    IN  [content |-> content,
         line_ranges |-> [j \in 1..Len(pieces) |-> byte_range(content, pieces[j])],
         scroll_state |-> ScrollState_new(Size(cast(max_graphemes_in_line), cast(Len(pieces))))]

\* The number of clusters of a text before the byte index byte, counted on
\* from cluster k at byte index b; None if the text has no cluster boundary
\* at that byte index.
RECURSIVE cluster_at(_, _, _, _)
cluster_at(text, byte, k, b) ==
    IF b >= byte THEN (IF b = byte THEN Some(k) ELSE None)
    ELSE IF k >= Len(text) THEN None
    ELSE cluster_at(text, byte, k + 1, b + Len(text[k + 1]))

\* content[line_range]: the clusters of the content in a byte range; None
\* where the slice panics, the range reaching beyond the content.
index_range(content, r) ==
    LET first == cluster_at(content, r.start, 0, 0)
        last == IF first.some THEN cluster_at(content, r.end, first.value, r.start)
                ELSE None
    IN  IF last.some THEN Some(SubSeq(content, first.value + 1, last.value)) ELSE None

\* Any::range: begin..begin + len
range(begin, len) == Range(begin, begin + len)

Paragraph(ls) == [panic |-> FALSE, text |-> ls]

ParagraphPanic == [panic |-> TRUE, text |-> <<>>]

\* Lines::render_content: the paragraph drawn, or the panic of a slice or of a
\* substring.
render_content(l, rect) ==
    LET offset == l.scroll_state.offset
        substring_range == range(offset.x, rect.width)
        selected == take(skip(l.line_ranges, offset.y), rect.height)
        sliced == [k \in 1..Len(selected) |-> index_range(l.content, selected[k])]
        out == [k \in 1..Len(selected) |-> substring(sliced[k].value, substring_range)]
    IN  IF \E k \in 1..Len(sliced) : ~sliced[k].some THEN ParagraphPanic
        ELSE IF \E k \in 1..Len(out) : out[k].panic THEN ParagraphPanic
        ELSE Paragraph([k \in 1..Len(out) |-> out[k].str])

NoFrame == [drawn |-> FALSE]

\* Lines::render_scroll_view: set_page_size(rect.as_size()), render_content,
\* render_scroll_bars.  The frame holds the paragraph drawn and the bars with
\* the cells styled for them; a panic of render_content ends the render before
\* the bars.
render_scroll_view(l, rect, buffer) ==
    LET pushed == [l EXCEPT !.scroll_state = set_page_size(@, as_size(rect))]
        paragraph == render_content(pushed, rect)
        bars == IF paragraph.panic THEN NoBars
                ELSE render_scroll_bars(pushed.scroll_state, rect, buffer)
    IN  [lines |-> pushed,
         frame |-> [drawn |-> TRUE, rect |-> rect,
                    offset |-> pushed.scroll_state.offset,
                    content_size |-> pushed.scroll_state.content_size,
                    paragraph |-> paragraph,
                    vertical |-> bars.vertical, horizontal |-> bars.horizontal,
                    styled_vertical |-> bars.styled_vertical,
                    styled_horizontal |-> bars.styled_horizontal]]

\* Lines::take_content: the content is moved out and an empty one left; the
\* line ranges and the scroll state stay.
Lines_take_content(l) == [content |-> l.content, rest |-> [l EXCEPT !.content = <<>>]]

\* KeyModifiers of a mouse event
KeyModifiers == {"NONE", "CONTROL", "ALT", "CONTROL_ALT"}

ScrollKinds == {"ScrollDown", "ScrollUp", "ScrollLeft", "ScrollRight"}

\* A handle_mouse_event that takes the large step for Control as well.
ScrollState_handle_mouse_event_control_fast(s, kind, modifiers) ==
    LET count == IF modifiers \in {"ALT", "CONTROL"} THEN FAST_SCROLL_COUNT
                 ELSE NORMAL_SCROLL_COUNT
    IN  CASE kind = "ScrollDown" -> scroll_down(s, count)
          [] kind = "ScrollUp" -> scroll_up(s, count)
          [] kind = "ScrollLeft" -> scroll_left(s, count)
          [] kind = "ScrollRight" -> scroll_right(s, count)
          [] OTHER -> s

\* ScrollState::handle_mouse_event: the modifiers are matched exactly.
ScrollState_handle_mouse_event(s, kind, modifiers) ==
    LET count(page_extent) ==
            CASE modifiers = "CONTROL" -> page_extent
              [] modifiers = "ALT" -> FAST_SCROLL_COUNT
              [] OTHER -> NORMAL_SCROLL_COUNT
    IN  CASE kind = "ScrollDown" -> scroll_down(s, count(s.page_size.height))
          [] kind = "ScrollUp" -> scroll_up(s, count(s.page_size.height))
          [] kind = "ScrollLeft" -> scroll_left(s, count(s.page_size.width))
          [] kind = "ScrollRight" -> scroll_right(s, count(s.page_size.width))
          [] OTHER -> s

RenderInit ==
    /\ \E content \in Contents : lines = Lines_new(content)
    /\ frame = NoFrame
    /\ mouse = Idle
    /\ scroll_state = Idle
    /\ line = Idle /\ sub_call = Idle
    /\ jq_process = Idle
    /\ app = Idle /\ clock = 0 /\ procs = <<>> /\ channel = <<>> /\ delivered = <<>>

Panicked == frame.drawn /\ frame.paragraph.panic

\* A render of the pane in a rectangle of any page size at the corner of the
\* terminal.
LinesRender ==
    /\ ~Panicked
    /\ \E size \in PageSizes :
           LET rect == Rect(0, 0, size.width, size.height)
               r == render_scroll_view(lines, rect, Buffer(rect))
           IN  lines' = r.lines /\ frame' = r.frame
    /\ UNCHANGED <<mouse, scrollVars, substrVars, procVars, appVars>>

\* A mouse event between two renders.
LinesMouse ==
    /\ ~Panicked
    /\ \E kind \in ScrollKinds, modifiers \in KeyModifiers :
           lines' = [lines EXCEPT !.scroll_state =
                         ScrollState_handle_mouse_event(@, kind, modifiers)]
    /\ frame' = NoFrame
    /\ UNCHANGED <<mouse, scrollVars, substrVars, procVars, appVars>>

\* The content is taken out of the pane.
LinesTakeContent ==
    /\ ~Panicked
    /\ lines' = Lines_take_content(lines).rest
    /\ frame' = NoFrame
    /\ UNCHANGED <<mouse, scrollVars, substrVars, procVars, appVars>>

RenderNext ==
    \/ LinesRender
    \/ LinesMouse
    \/ LinesTakeContent

SpecRender == RenderInit /\ [][RenderNext]_vars

\* The lines of a content as the clusters of each, and the clusters b .. e - 1
\* of a line.
LineClusters(l, j) == index_range(l.content, l.line_ranges[j]).value

Columns(cl, b, e) == Flatten(SubSeq(cl, b + 1, Min(e, Len(cl))))

\* C12: a render draws one line for each source line with index in
\* [offset.y, offset.y + height) that exists, in order, and each is the
\* clusters [offset.x, offset.x + width) of its source line.
C12_WindowDrawn ==
    frame.drawn =>
        LET first == frame.offset.y + 1
            last == Min(frame.offset.y + frame.rect.height, Len(lines.line_ranges))
        IN  /\ ~frame.paragraph.panic
            /\ Len(frame.paragraph.text) = Max(last - first + 1, 0)
            /\ \A k \in 1..Len(frame.paragraph.text) :
                   frame.paragraph.text[k] =
                       Columns(LineClusters(lines, first + k - 1), frame.offset.x,
                               frame.offset.x + frame.rect.width)

\* C13: at a render, with the page size of the rectangle pushed, the offset
\* the window is drawn from is within max(0, content - page) on both axes.
C13_OffsetInRangeAtRender ==
    frame.drawn =>
        LET c == lines.scroll_state.content_size
        IN  /\ frame.offset.x <= Max(0, c.width - frame.rect.width)
            /\ frame.offset.y <= Max(0, c.height - frame.rect.height)

\* The messages of task i: those it put on the channel, received or not.
MessagesOf(i) ==
    LET all == delivered \o channel
    IN  {k \in 1..Len(all) : all[k].instant = procs[i].instant}

\* C14 as stated: each task that has ended, successfully or not, has sent
\* exactly one message on the channel.
C14_ExactlyOneMessage ==
    \A i \in 1..Len(procs) :
        procs[i].status \in {"finished", "failed"} => Cardinality(MessagesOf(i)) = 1

\* C14 amended: a task sends exactly one message, its start instant with the
\* output text, if it succeeds, and none if it fails or has not ended; never
\* more than one.
C14_OneMessageIffSuccess ==
    \A i \in 1..Len(procs) :
        /\ Cardinality(MessagesOf(i)) = IF procs[i].status = "finished" THEN 1 ELSE 0
        /\ \A k \in MessagesOf(i) : (delivered \o channel)[k] = ResultOf(procs[i])

\* The first task failed and sent nothing; the second succeeded and its one
\* message is on the channel.
C14_Witness ==
    /\ Len(procs) = 2
    /\ procs[1].status = "failed"
    /\ procs[2].status = "finished"
    /\ delivered = <<>>
    /\ channel = <<ResultOf(procs[2])>>

\* C15 as stated: Ctrl-Q ends the session with an error, and no output is
\* written.
C15_QuitIsError ==
    (app.returned.some /\ app.returned.value.how = "quit") =>
        /\ ~app.returned.value.result.ok
        /\ \A output \in OutputOutcomes :
               CliArgs_run("ok", app.returned.value.result, output).written = None

\* C15 amended: Ctrl-Q ends the session at once and successfully, with the
\* empty string as its output, whatever the current result is; the empty
\* string is what is written, unless the output file cannot be created,
\* which is a failure with nothing written.
C15_QuitIsEmptySuccess ==
    (app.returned.some /\ app.returned.value.how = "quit") =>
        /\ app.pc = "done"
        /\ app.returned.value.result = Ok(<<>>)
        /\ \A output \in OutputOutcomes \ {"create_failed"} :
               CliArgs_run("ok", app.returned.value.result, output) =
                   [status |-> "success", written |-> Some(<<>>)]
        /\ CliArgs_run("ok", app.returned.value.result, "create_failed") =
               [status |-> "failure", written |-> None]

\* Ctrl-Q was pressed while a result with content was current.
C15_Witness ==
    /\ app.returned.some
    /\ app.returned.value.how = "quit"
    /\ JqOutput_value(app.jq_output) # <<>>

\* C16: when the event stream ends or yields an error, the session is over
\* with an error: run() has returned Err, nothing is written, and the loop
\* takes no further tick or event.
C16_StreamFailureEndsWithError ==
    (app.returned.some /\ app.returned.value.how = "event_stream") =>
        /\ app.pc = "done"
        /\ ~app.returned.value.result.ok
        /\ \A output \in OutputOutcomes :
               CliArgs_run("ok", app.returned.value.result, output) =
                   [status |-> "failure", written |-> None]
        /\ ~ENABLED (AppTick \/ AppRender \/ AppKey \/ AppMouse \/ AppCommit \/ AppQuit)

\* The stream ended while a result was current and another was still on the
\* channel.
C16_Witness ==
    /\ app.returned.some
    /\ app.returned.value.how = "event_stream"
    /\ app.returned.value.result = Err("event stream ended unexpectedly")
    /\ JqOutput_value(app.jq_output) # <<>>
    /\ channel # <<>>

\* The text of the query field, and the query a task is built with for a text.
QueryText(a) == a.query_text_state.value

Spawned == Len(procs') = Len(procs) + 1

SpawnedFor(text) ==
    /\ Spawned
    /\ SubSeq(procs', 1, Len(procs)) = procs
    /\ procs'[Len(procs')].query = (IF text = <<>> THEN DEFAULT_QUERY ELSE text)
    /\ procs'[Len(procs')].status = "running"

\* C17 as stated: a step of the loop at its select spawns a task if and only
\* if it changed the query text, and then exactly one, for the new text.
C17_SpawnIffChanged ==
    [][app.pc = "select" =>
           /\ (QueryText(app') # QueryText(app)) <=> Spawned
           /\ Spawned => SpawnedFor(QueryText(app'))
           /\ ~Spawned => Len(procs') = Len(procs)]_vars

\* C17 amended: an edit that changes the text spawns exactly one task for
\* the new text (the empty text as the default query), unless
\* spawn_jq_process fails, and then none is spawned and run() returns the
\* error; a key event that leaves the text unchanged spawns none.
C17_SpawnIffChangedOrError ==
    [][app.pc = "select" =>
           /\ (QueryText(app') # QueryText(app) /\ app'.pc # "done") <=> Spawned
           /\ Spawned => SpawnedFor(QueryText(app'))
           /\ ~Spawned => Len(procs') = Len(procs)
           /\ (QueryText(app') # QueryText(app) /\ app'.pc = "done") =>
                  (app'.returned.some /\ ~app'.returned.value.result.ok)]_vars

\* A character was typed, which spawned the second task for it, and then the
\* cursor was moved left, which spawned none.
C17_Witness ==
    /\ app.pc = "select"
    /\ app.query_text_state = [value |-> <<"a">>, position |-> 0]
    /\ Len(procs) = 2
    /\ procs[2].query = <<"a">>

(***************************************************************************)
(* App::handle_mouse_event in a session whose renders lay the rectangles   *)
(* of RectSet out, with the position of each mouse event.                  *)
(***************************************************************************)
\* Bounds: the half width of the terminal and the height of its top row of
\* panes.
MaxHalfWidth == 1

MaxPaneHeight == 1

\* The height of each of the two one-line fields under the panes.
FIELD_HEIGHT == 3

RECT_ZERO == Rect(0, 0, 0, 0)

\* RectSet::new for an area whose width is even and whose height holds both
\* fields (or is 0): the two panes side by side, the two fields under them.
RectSet_new(area) ==
    LET top == Max(area.height - 2 * FIELD_HEIGHT, 0)
        fields == Min(area.height, FIELD_HEIGHT)
        half == area.width \div 2
    IN  [input |-> Rect(area.x, area.y, half, top),
         output |-> Rect(area.x + half, area.y, area.width - half, top),
         cli_flags |-> Rect(area.x, area.y + top, area.width, IF area.height = 0 THEN 0 ELSE FIELD_HEIGHT),
         filter |-> Rect(area.x, area.y + top + (IF area.height = 0 THEN 0 ELSE FIELD_HEIGHT),
                         area.width, IF area.height = 0 THEN 0 ELSE FIELD_HEIGHT)]

\* RectSet::empty
RectSet_empty == RectSet_new(RECT_ZERO)

Areas ==
    {Rect(0, 0, 2 * hw, ph + 2 * FIELD_HEIGHT) : hw \in 1..MaxHalfWidth, ph \in 1..MaxPaneHeight}

\* The pane a position selects, input first.
Where(rects, position) ==
    IF contains(rects.input, position) THEN "input"
    ELSE IF contains(rects.output, position) THEN "output"
    ELSE "elsewhere"

\* App::new: rect_set is RectSet::empty().  mouse holds the last mouse event
\* the loop was given.
RouteInit ==
    /\ app = [pc |-> "start",
              jq_output |-> JqOutput_empty(0),
              query_text_state |-> [value |-> <<>>, position |-> 0],
              input_scroll_view_state |-> ORIGIN,
              output_scroll_view_state |-> ORIGIN,
              rect_set |-> "empty",
              rects |-> RectSet_empty,
              received |-> None,
              returned |-> None]
    /\ mouse = None
    /\ clock = Instant_now(0)
    /\ procs = <<>>
    /\ channel = <<>>
    /\ delivered = <<>>
    /\ scroll_state = Idle
    /\ lines = Idle /\ frame = Idle
    /\ line = Idle /\ sub_call = Idle
    /\ jq_process = Idle

\* The tick arm, continued: terminal.draw(|frame| self.render(frame))?, with
\* self.rect_set = RectSet::new(frame.area()) for the area the terminal has
\* at that moment.
RouteRender ==
    /\ app.pc = "render"
    /\ \/ \E area \in Areas,
             i \in ClampedOffsets(app.input_scroll_view_state),
             o \in ClampedOffsets(app.output_scroll_view_state) :
              app' = [app EXCEPT !.pc = "select", !.rect_set = "laid_out",
                                 !.rects = RectSet_new(area),
                                 !.received = None,
                                 !.input_scroll_view_state = i,
                                 !.output_scroll_view_state = o]
       \/ app' = [app EXCEPT !.pc = "done", !.received = None,
                             !.returned = Returned("error", Err("io"))]
    /\ UNCHANGED <<clock, procs, channel, delivered, scrollVars, renderVars, substrVars, procVars>>

\* The event arm: a mouse event at a position of the terminal, or just
\* outside of it.  The page height counts for a scroll with Control only.
RouteMouse ==
    /\ app.pc = "select"
    /\ \E column \in 0..(2 * MaxHalfWidth), row \in 0..(MaxPaneHeight + 1),
          kind \in MouseEventKinds, control \in BOOLEAN :
       \E pages \in IF control THEN 1..MaxOffset ELSE {1} :
           /\ app' = handle_mouse_event(app, Where(app.rects, Position(column, row)),
                                        kind, control, pages)
           /\ mouse' = Some([position |-> Position(column, row)])
    /\ UNCHANGED <<lines, frame, clock, procs, channel, delivered, scrollVars, substrVars,
                   procVars>>

RouteNext ==
    \/ AppStart
    \/ AppTick
    \/ RouteRender
    \/ RouteMouse
    \/ ProcRun

SpecRoute == RouteInit /\ [][RouteNext]_vars

\* C19: a mouse event whose position is in the input pane's rectangle leaves
\* the output pane's scroll state alone, one in the output pane's rectangle
\* leaves the input pane's alone, one outside both leaves both alone; the
\* query text, the current result, the tasks and the channel are unchanged.
\* The steps looked at are those that change the position held in mouse:
\* every mouse event at a position other than that of the event before it,
\* from every state of the session.
C19_RoutedByPosition ==
    [][mouse' # mouse =>
       LET position == mouse'.value.position
           in_input == contains(app.rects.input, position)
           in_output == contains(app.rects.output, position)
       IN  /\ in_input => app'.output_scroll_view_state = app.output_scroll_view_state
           /\ in_output => app'.input_scroll_view_state = app.input_scroll_view_state
           /\ (~in_input /\ ~in_output) =>
                  /\ app'.input_scroll_view_state = app.input_scroll_view_state
                  /\ app'.output_scroll_view_state = app.output_scroll_view_state
           /\ app'.query_text_state = app.query_text_state
           /\ app'.jq_output = app.jq_output
           /\ procs' = procs
           /\ channel' = channel]_vars

\* An event in the input pane's rectangle has come while the first task is
\* still running, and the input pane's offset is off the origin while the
\* output pane's is at the origin.
C19_Witness ==
    /\ mouse.some
    /\ contains(app.rects.input, mouse.value.position)
    /\ app.input_scroll_view_state = Position(0, 1)
    /\ app.output_scroll_view_state = ORIGIN
    /\ app.pc = "select"
    /\ Len(procs) = 1 /\ procs[1].status = "running"

(***************************************************************************)
(* The scroll quantum of a mouse event: ScrollState::handle_mouse_event    *)
(* and ScrollView::scroll_count over page sizes below and above the large  *)
(* step.                                                                   *)
(***************************************************************************)
\* Bound: the largest extent of a page.
MaxQuantumPage == 6

\* The content is big enough for a page step to stay short of its end.
QuantumContent == Size(2 * MaxQuantumPage + 1, 2 * MaxQuantumPage + 1)

QuantumPages == {Size(w, h) : w \in 1..MaxQuantumPage, h \in 1..MaxQuantumPage}

LARGE_SCROLL_COUNT == 5

\* ScrollView::scroll_count: Control wins over Alt, either may come with
\* other modifiers.
scroll_count(key_modifiers, page_size) ==
    IF key_modifiers \in {"CONTROL", "CONTROL_ALT"} THEN page_size
    ELSE IF key_modifiers = "ALT" THEN LARGE_SCROLL_COUNT
    ELSE NORMAL_SCROLL_COUNT

QuantumInit ==
    /\ \E page_size \in QuantumPages :
           scroll_state = set_page_size(ScrollState_new(QuantumContent), page_size)
    /\ mouse = None
    /\ lines = Idle /\ frame = Idle
    /\ line = Idle /\ sub_call = Idle
    /\ jq_process = Idle
    /\ app = Idle /\ clock = 0 /\ procs = <<>> /\ channel = <<>> /\ delivered = <<>>

\* A scroll event with any modifiers.
QuantumMouse ==
    /\ \E kind \in ScrollKinds, modifiers \in KeyModifiers :
           /\ scroll_state' = ScrollState_handle_mouse_event(scroll_state, kind, modifiers)
           /\ mouse' = Some([kind |-> kind, modifiers |-> modifiers])
    /\ UNCHANGED <<lines, frame, substrVars, procVars, appVars>>

\* The pane is drawn in a rectangle of another size.
QuantumResize ==
    /\ \E page_size \in QuantumPages \ {scroll_state.page_size} :
           scroll_state' = set_page_size(scroll_state, page_size)
    /\ mouse' = None
    /\ UNCHANGED <<lines, frame, substrVars, procVars, appVars>>

QuantumNext ==
    \/ QuantumMouse
    \/ QuantumResize

SpecQuantum == QuantumInit /\ [][QuantumNext]_vars

\* C20 as stated: the large quantum is strictly bigger than the unit quantum
\* and strictly smaller than the page quantum, whatever the page size.
C20_LargeBetweenUnitAndPage ==
    /\ NORMAL_SCROLL_COUNT < FAST_SCROLL_COUNT
    /\ FAST_SCROLL_COUNT < scroll_state.page_size.width
    /\ FAST_SCROLL_COUNT < scroll_state.page_size.height

\* C20: a scroll event with no modifier moves the offset by 1 cell along its
\* axis, with Control alone by the page size along that axis, with Alt alone
\* by the fixed large step, saturating at 0 and at the largest offset; the
\* large step is bigger than the unit step, and smaller than the page step
\* exactly when the page extent exceeds it.
C20_QuantumByMode ==
    [][(mouse'.some /\ mouse'.value.modifiers \in {"NONE", "CONTROL", "ALT"}) =>
        LET s == scroll_state
            vertical == mouse'.value.kind \in {"ScrollDown", "ScrollUp"}
            forward == mouse'.value.kind \in {"ScrollDown", "ScrollRight"}
            page == IF vertical THEN s.page_size.height ELSE s.page_size.width
            content == IF vertical THEN s.content_size.height ELSE s.content_size.width
            old == IF vertical THEN s.offset.y ELSE s.offset.x
            new == IF vertical THEN scroll_state'.offset.y ELSE scroll_state'.offset.x
            quantum == CASE mouse'.value.modifiers = "NONE" -> 1
                         [] mouse'.value.modifiers = "CONTROL" -> page
                         [] mouse'.value.modifiers = "ALT" -> FAST_SCROLL_COUNT
            largest == Max(0, content - page)
        IN  /\ new = IF forward THEN Min(old + quantum, largest)
                     ELSE Min(Max(old - quantum, 0), largest)
            /\ vertical => scroll_state'.offset.x = s.offset.x
            /\ ~vertical => scroll_state'.offset.y = s.offset.y
            /\ scroll_state'.page_size = s.page_size
            /\ scroll_state'.content_size = s.content_size
            /\ scroll_count(mouse'.value.modifiers, page) = quantum
            /\ 1 < FAST_SCROLL_COUNT
            /\ LARGE_SCROLL_COUNT = FAST_SCROLL_COUNT
            /\ (FAST_SCROLL_COUNT < page) <=> (page \in (FAST_SCROLL_COUNT + 1)..MaxQuantumPage + 1)
       ]_vars

\* An Alt scroll has moved a one-row page by the large step, five times the
\* page step.
C20_Witness ==
    /\ mouse.some
    /\ mouse.value.modifiers = "ALT"
    /\ mouse.value.kind = "ScrollDown"
    /\ scroll_state.page_size.height = 1
    /\ scroll_state.offset.y = FAST_SCROLL_COUNT

(***************************************************************************)
(* A pane's ScrollState over its life: scrolled, drawn in rectangles of    *)
(* other sizes, and replaced by the state of a new content that takes the  *)
(* offset over (JqOutput::with_scroll_view_offset).                        *)
(***************************************************************************)
\* The sizes a content can have: no line and no width, or some lines of some
\* greatest width.
ViewContentSizes ==
    {size \in SmallContentSizes : size.height = 0 => size.width = 0}

\* The scroll state of the ScrollView a JqOutput is made with: ScrollView::new
\* and a push_line for every line, which leave the offset at the origin and
\* the page size at zero.
ScrollView_state(size) ==
    [offset |-> ORIGIN, content_size |-> size, page_size |-> Size(0, 0)]

ViewInit ==
    /\ \E size \in ViewContentSizes : scroll_state = ScrollView_state(size)
    /\ mouse = None
    /\ lines = Idle /\ frame = Idle
    /\ line = Idle /\ sub_call = Idle
    /\ jq_process = Idle
    /\ app = Idle /\ clock = 0 /\ procs = <<>> /\ channel = <<>> /\ delivered = <<>>

\* ScrollState::set_page_size with another size, as a render in a rectangle
\* of another size calls it.
ViewResize ==
    /\ \E page_size \in PageSizes \ {scroll_state.page_size} :
           scroll_state' = set_page_size(scroll_state, page_size)
    /\ mouse' = None
    /\ UNCHANGED <<lines, frame, substrVars, procVars, appVars>>

\* new.with_scroll_view_offset(&old): the state of the new content, with the
\* offset of the old one.
with_scroll_view_offset(new, other) == set_offset(new, other.offset)

ViewReplace ==
    /\ \E size \in ViewContentSizes \ {scroll_state.content_size} :
           scroll_state' = with_scroll_view_offset(ScrollView_state(size), scroll_state)
    /\ mouse' = None
    /\ UNCHANGED <<lines, frame, substrVars, procVars, appVars>>

\* One scroll_up, scroll_down, scroll_left or scroll_right call with any
\* count; mouse records which.
ViewScroll ==
    /\ \E kind \in ScrollKinds :
           /\ \E count \in ScrollCounts(IF kind \in {"ScrollUp", "ScrollDown"}
                                        THEN scroll_state.page_size.height
                                        ELSE scroll_state.page_size.width) :
                  scroll_state' = CASE kind = "ScrollUp" -> scroll_up(scroll_state, count)
                                    [] kind = "ScrollDown" -> scroll_down(scroll_state, count)
                                    [] kind = "ScrollLeft" -> scroll_left(scroll_state, count)
                                    [] kind = "ScrollRight" -> scroll_right(scroll_state, count)
           /\ mouse' = Some([kind |-> kind])
    /\ UNCHANGED <<lines, frame, substrVars, procVars, appVars>>

ViewNext ==
    \/ ViewScroll
    \/ ViewResize
    \/ ViewReplace

SpecView == ViewInit /\ [][ViewNext]_vars

\* C21: when the content extent is at most the page extent on an axis, a
\* scroll operation (a step that keeps the content size and the page size)
\* leaves the offset on that axis as it was.
C21_ScrollIsNoOpWhenContentFits ==
    [][(/\ scroll_state'.content_size = scroll_state.content_size
        /\ scroll_state'.page_size = scroll_state.page_size) =>
           /\ scroll_state.content_size.height <= scroll_state.page_size.height =>
                  scroll_state'.offset.y = scroll_state.offset.y
           /\ scroll_state.content_size.width <= scroll_state.page_size.width =>
                  scroll_state'.offset.x = scroll_state.offset.x]_vars

\* C22 as stated: the current result starts empty and stamped with the
\* earliest instant there is (0, where the clock starts), and the first result
\* the loop receives is the current one afterwards.
C22_StartsAtEarliestInstant ==
    /\ app.pc = "start" => (JqOutput_value(app.jq_output) = <<>> /\ app.jq_output.instant = 0)
    /\ (Len(delivered) = 1 /\ app.pc = "render") => app.jq_output = delivered[1]

\* C22: the current result starts empty and stamped with the instant App::new
\* read; every task is built later, so the first result the loop receives
\* carries a greater instant and becomes the current result.
C22_FirstResultApplied ==
    [][/\ app.pc = "start" =>
              /\ JqOutput_value(app.jq_output) = <<>>
              /\ app.jq_output.instant <= clock
              /\ \A i \in 1..Len(procs') : app.jq_output.instant < procs'[i].instant
       /\ (app.pc = "select" /\ app'.pc = "render" /\ channel # <<>> /\ delivered = <<>>) =>
              /\ app.jq_output.instant < Head(channel).instant
              /\ app'.jq_output = Head(channel)]_vars

\* The first result has been received and is the current one.
C22_Witness ==
    /\ app.pc = "render"
    /\ Len(delivered) = 1
    /\ app.jq_output = delivered[1]
    /\ JqOutput_value(app.jq_output) # <<>>

(***************************************************************************)
(* Lines::new on its own: a buffer, then its line index.                   *)
(***************************************************************************)
IndexInit ==
    /\ \E content \in Contents : lines = [content |-> content]
    /\ frame = Idle /\ mouse = Idle
    /\ scroll_state = Idle
    /\ line = Idle /\ sub_call = Idle
    /\ jq_process = Idle
    /\ app = Idle /\ clock = 0 /\ procs = <<>> /\ channel = <<>> /\ delivered = <<>>

Indexed == "line_ranges" \in DOMAIN lines

IndexBuild ==
    /\ ~Indexed
    /\ lines' = Lines_new(lines.content)
    /\ UNCHANGED <<frame, mouse, scrollVars, substrVars, procVars, appVars>>

IndexNext ==
    \/ IndexBuild

SpecIndex == IndexInit /\ [][IndexNext]_vars

\* The lines of a text, read from its start: a line ends at a line ending or
\* at the end of the text, and nothing after the last line ending is no line.
RECURSIVE TextLines(_, _)
TextLines(text, current) ==
    IF text = <<>> THEN (IF current = <<>> THEN <<>> ELSE <<current>>)
    ELSE IF Head(text) \in LineEndings THEN <<current>> \o TextLines(Tail(text), <<>>)
    ELSE TextLines(Tail(text), Append(current, Head(text)))

\* C23: the line index of an empty buffer has no line and content size
\* (0, 0); otherwise it has one range per line of the buffer, each range is
\* the bytes of its line, the content height is the number of lines and the
\* content width is the greatest number of grapheme clusters of a line.
C23_LineIndex ==
    Indexed =>
    LET expected == TextLines(lines.content, <<>>)
        size == lines.scroll_state.content_size
    IN  /\ lines.content = <<>> => (lines.line_ranges = <<>> /\ size = Size(0, 0))
        /\ Len(lines.line_ranges) = Len(expected)
        /\ \A j \in 1..Len(expected) : LineClusters(lines, j) = expected[j]
        /\ size.height = Len(expected)
        /\ \A j \in 1..Len(expected) : Len(expected[j]) <= size.width
        /\ expected # <<>> => \E j \in 1..Len(expected) : Len(expected[j]) = size.width
        /\ expected = <<>> => size.width = 0

\* A buffer of two lines of unequal length that ends with a line feed.
C23_Witness ==
    /\ Indexed
    /\ lines.content = <<<<97>>, NL, <<195, 169>>, <<97>>, NL>>
    /\ Len(lines.line_ranges) = 2
    /\ lines.scroll_state.content_size = Size(2, 2)

\* C24: substring returns the empty string, and does not fail, when the range
\* starts at or beyond the number of clusters of the line, when the range is
\* empty, and when the line is empty.
C24_EmptySelection ==
    /\ (/\ sub_call.op = "substring"
        /\ \/ sub_call.begin >= Len(line)
           \/ sub_call.begin >= sub_call.end
           \/ line = <<>>) => sub_call.ret = Str(<<>>)
    /\ (sub_call.op = "split" /\ sub_call.end = Len(line)) => sub_call.tail = Str(<<>>)

\* A range that starts just beyond the last cluster of a line of multi-byte
\* clusters was asked for, and the answer was the empty string.
C24_Witness ==
    /\ sub_call.op = "substring"
    /\ line = <<<<195, 169>>, <<101, 204, 129>>>>
    /\ sub_call.begin = Len(line)
    /\ sub_call.end > sub_call.begin
    /\ sub_call.ret = Str(<<>>)

(***************************************************************************)
(* A pane with its scroll bars: Lines::render_scroll_view in a rectangle   *)
(* of the terminal, and mouse events between the renders.                  *)
(***************************************************************************)
\* The content of h lines of w letters, each ended by a line feed.
BarContent(w, h) ==
    [i \in 1..(h * (w + 1)) |-> IF i % (w + 1) = 0 THEN NL ELSE <<97>>]

BarContents == {BarContent(w, h) : w \in 0..MaxContent, h \in 0..MaxContent}

\* The rectangles a pane is drawn in: every small one, at the left edge of
\* the terminal or one cell off it.
PaneRects == {Rect(x, 0, p.width, p.height) : x \in 0..1, p \in PageSizes}

BarsInit ==
    /\ \E content \in BarContents : lines = Lines_new(content)
    /\ frame = NoFrame
    /\ mouse = Idle
    /\ scroll_state = Idle
    /\ line = Idle /\ sub_call = Idle
    /\ jq_process = Idle
    /\ app = Idle /\ clock = 0 /\ procs = <<>> /\ channel = <<>> /\ delivered = <<>>

\* A render of the pane in a rectangle of the terminal.
BarsRender ==
    /\ \E rect \in PaneRects :
           LET r == render_scroll_view(lines, rect, Buffer(rect))
           IN  lines' = r.lines /\ frame' = r.frame
    /\ UNCHANGED <<mouse, scrollVars, substrVars, procVars, appVars>>

BarsNext ==
    \/ BarsRender
    \/ LinesMouse

SpecBars == BarsInit /\ [][BarsNext]_vars

(***************************************************************************)
(* ScrollState::render_scroll_bars as a function of the scroll state and   *)
(* the rectangle, on small extents, on the content of 100 lines in a page  *)
(* of ten rows, and on extents whose products f32 does not hold exactly.   *)
(***************************************************************************)
ThumbCase(rect, offset, content_size) ==
    [rect |-> rect, offset |-> offset, content_size |-> content_size]

\* Every small rectangle, at the corner of the terminal or one cell off it.
BarRects ==
    {Rect(x, y, p.width, p.height) : x \in 0..1, y \in 0..1, p \in PageSizes}

ThumbCases ==
    {ThumbCase(rect, Position(x, y), size) :
         rect \in BarRects, x \in 0..MaxContent, y \in 0..MaxContent,
         size \in {s \in SmallContentSizes : s.height = 0 => s.width = 0}}
    \cup {ThumbCase(Rect(0, 0, 1, 10), Position(0, y), Size(1, 100)) : y \in 0..100}
    \cup {ThumbCase(Rect(0, 0, 1, 1000), Position(0, 36142), Size(1, 65534)),
          ThumbCase(Rect(0, 0, 1, 2986), Position(0, 0), Size(1, 34761))}

\* The scroll state of a pane about to be drawn in a rectangle: the page size
\* is the size of the rectangle.
ThumbInit ==
    /\ \E case \in ThumbCases :
           /\ scroll_state = [offset |-> case.offset, content_size |-> case.content_size,
                              page_size |-> as_size(case.rect)]
           /\ frame = [drawn |-> FALSE, rect |-> case.rect]
    /\ lines = Idle /\ mouse = Idle
    /\ line = Idle /\ sub_call = Idle
    /\ jq_process = Idle
    /\ app = Idle /\ clock = 0 /\ procs = <<>> /\ channel = <<>> /\ delivered = <<>>

\* render_scroll_bars(frame, rect)
ThumbRender ==
    /\ ~frame.drawn
    /\ LET bars == render_scroll_bars(scroll_state, frame.rect, Buffer(frame.rect))
       IN  frame' = [drawn |-> TRUE, rect |-> frame.rect,
                     offset |-> scroll_state.offset,
                     content_size |-> scroll_state.content_size,
                     vertical |-> bars.vertical, horizontal |-> bars.horizontal,
                     styled_vertical |-> bars.styled_vertical,
                     styled_horizontal |-> bars.styled_horizontal]
    /\ UNCHANGED <<scroll_state, lines, mouse, substrVars, procVars, appVars>>

ThumbNext == ThumbRender

SpecThumb == ThumbInit /\ [][ThumbNext]_vars

\* C25: at a render a scroll bar is drawn on an axis exactly when the content
\* extent exceeds the page extent on that axis, and no cell is styled for an
\* axis on which the content fits in the page.
C25_BarIffContentExceedsPage ==
    frame.drawn =>
        /\ frame.vertical.some <=>
               lines.scroll_state.content_size.height > lines.scroll_state.page_size.height
        /\ frame.horizontal.some <=>
               lines.scroll_state.content_size.width > lines.scroll_state.page_size.width
        /\ frame.content_size.height <= frame.rect.height => frame.styled_vertical = {}
        /\ frame.content_size.width <= frame.rect.width => frame.styled_horizontal = {}

\* A render drew the vertical bar and styled a cell for it, and drew no
\* horizontal bar, the content being no wider than the page.
C25_Witness ==
    /\ frame.drawn
    /\ frame.vertical.some
    /\ frame.styled_vertical # {}
    /\ ~frame.horizontal.some
    /\ frame.content_size.width = frame.rect.width
    /\ frame.rect.width > 0

\* C26: with a page extent of zero on an axis no interpolation divides by
\* zero and no thumb of non-zero size is made for that axis.
C26_ZeroPageNoBar ==
    frame.drawn =>
        /\ frame.rect.height = 0 =>
               (frame.vertical.some =>
                    /\ ~frame.vertical.value.nan
                    /\ positions(frame.vertical.value.thumb) = {})
        /\ frame.rect.width = 0 =>
               (frame.horizontal.some =>
                    /\ ~frame.horizontal.value.nan
                    /\ positions(frame.horizontal.value.thumb) = {})

\* C27 as stated: the thumb starts at the track start plus the track length
\* times offset / (content - page), rounded.
C27_ThumbAtOffsetOverMaxOffset ==
    frame.drawn =>
        /\ frame.vertical.some =>
               LET span == frame.content_size.height - frame.rect.height
                   thumb_start == frame.vertical.value.thumb.y - frame.rect.y
                   twice == 2 * span * thumb_start - 2 * frame.rect.height * frame.offset.y
               IN  -span < twice /\ twice <= span
        /\ frame.horizontal.some =>
               LET span == frame.content_size.width - frame.rect.width
                   thumb_start == frame.horizontal.value.thumb.x - frame.rect.x
                   twice == 2 * span * thumb_start - 2 * frame.rect.width * frame.offset.x
               IN  -span < twice /\ twice <= span

\* The products under which the f32 arithmetic of interpolate gives the
\* nearest cell exactly: 2^22.
ExactBelow == Pow2(F32_MANTISSA_DIGITS - 2)

\* C27: the thumb starts at the track start plus the track length times
\* offset / content, the offset being taken as at most the content extent,
\* less than one cell away; it is rounded to the nearest cell (halves upward)
\* when the track end times the content extent is under 2^22, which f32
\* computes exactly enough; offset 0 is the track start, and content 100,
\* page 10, offset 45 is 45/100 of the track.
C27_ThumbAtOffsetOverContent ==
    frame.drawn =>
        /\ frame.vertical.some =>
               LET content == frame.content_size.height
                   thumb_start == frame.vertical.value.thumb.y - frame.rect.y
                   twice == 2 * content * thumb_start
                            - 2 * frame.rect.height * Min(frame.offset.y, content)
               IN  /\ -2 * content < twice /\ twice < 2 * content
                   /\ bottom(frame.rect) * content < ExactBelow =>
                          (-content < twice /\ twice <= content)
                   /\ frame.offset.y = 0 => thumb_start = 0
                   /\ frame.vertical.value.thumb.x = Max(frame.rect.x + frame.rect.width - 1, 0)
        /\ frame.horizontal.some =>
               LET content == frame.content_size.width
                   thumb_start == frame.horizontal.value.thumb.x - frame.rect.x
                   twice == 2 * content * thumb_start
                            - 2 * frame.rect.width * Min(frame.offset.x, content)
               IN  /\ -2 * content < twice /\ twice < 2 * content
                   /\ right(frame.rect) * content < ExactBelow =>
                          (-content < twice /\ twice <= content)
                   /\ frame.offset.x = 0 => thumb_start = 0
                   /\ frame.horizontal.value.thumb.y = Max(frame.rect.y + frame.rect.height - 1, 0)

\* The content of 100 lines is drawn in ten rows from line 45: the thumb is on
\* row 5, the nearest to 4.5.
C27_Witness ==
    /\ frame.drawn
    /\ frame.content_size.height = 100
    /\ frame.rect.height = 10
    /\ frame.offset.y = 45
    /\ frame.vertical.some
    /\ frame.vertical.value.thumb.y = 5

\* C28 as stated: the thumb of a bar is as long as page * page / content
\* rounded to the nearest cell (halves upward), and at least one cell long; it
\* is one cell thick.
C28_ThumbLength ==
    frame.drawn =>
        /\ frame.vertical.some =>
               LET content == frame.content_size.height
                   page == frame.rect.height
                   length == frame.vertical.value.thumb.height
                   twice == 2 * content * length - 2 * page * page
               IN  /\ length >= 1
                   /\ length = 1 \/ (-content < twice /\ twice <= content)
                   /\ length = 1 => twice > -content
                   /\ frame.vertical.value.thumb.width = 1
        /\ frame.horizontal.some =>
               LET content == frame.content_size.width
                   page == frame.rect.width
                   length == frame.horizontal.value.thumb.width
                   twice == 2 * content * length - 2 * page * page
               IN  /\ length >= 1
                   /\ length = 1 \/ (-content < twice /\ twice <= content)
                   /\ length = 1 => twice > -content
                   /\ frame.horizontal.value.thumb.height = 1

\* C28: the thumb of a bar is at least one cell long and one cell thick, and
\* its length is less than one cell away from page * page / content where
\* that is a cell or more; it is page * page / content rounded to the nearest
\* cell (halves upward) when page * page is under 2^22, which f32 computes
\* exactly enough.
C28_ThumbLengthInF32 ==
    frame.drawn =>
        /\ frame.vertical.some =>
               LET content == frame.content_size.height
                   page == frame.rect.height
                   length == frame.vertical.value.thumb.height
                   twice == 2 * content * length - 2 * page * page
               IN  /\ length >= 1
                   /\ length = 1 \/ (-2 * content < twice /\ twice < 2 * content)
                   /\ length = 1 => twice > -2 * content
                   /\ page * page < ExactBelow =>
                          /\ length = 1 \/ (-content < twice /\ twice <= content)
                          /\ length = 1 => twice > -content
                   /\ frame.vertical.value.thumb.width = 1
        /\ frame.horizontal.some =>
               LET content == frame.content_size.width
                   page == frame.rect.width
                   length == frame.horizontal.value.thumb.width
                   twice == 2 * content * length - 2 * page * page
               IN  /\ length >= 1
                   /\ length = 1 \/ (-2 * content < twice /\ twice < 2 * content)
                   /\ length = 1 => twice > -2 * content
                   /\ page * page < ExactBelow =>
                          /\ length = 1 \/ (-content < twice /\ twice <= content)
                          /\ length = 1 => twice > -content
                   /\ frame.horizontal.value.thumb.height = 1

\* A page of one row over a content of three lines: a third of a cell, drawn
\* as one cell; and a page of ten rows over 100 lines elsewhere.
C28_Witness ==
    /\ frame.drawn
    /\ frame.vertical.some
    /\ frame.rect.height = 1
    /\ frame.content_size.height = MaxContent
    /\ frame.vertical.value.thumb.height = 1

\* C29: right after a content of another size has replaced the current one
\* and taken its offset over, the offset is within the new content on both
\* axes: 0 <= offset <= max(0, content - page).
C29_OffsetInRangeAfterReplacement ==
    [][scroll_state'.content_size # scroll_state.content_size =>
        LET s == scroll_state'
        IN  /\ 0 <= s.offset.x
            /\ s.offset.x <= Max(0, s.content_size.width - s.page_size.width)
            /\ 0 <= s.offset.y
            /\ s.offset.y <= Max(0, s.content_size.height - s.page_size.height)]_vars

\* C30: the instant of the current result never decreases, whatever the step:
\* a tick with or without an arrival, a render, a key or mouse event, a task
\* that runs, the end of the session.
C30_InstantNeverDecreases ==
    [][app.jq_output.instant <= app'.jq_output.instant]_vars

\* The loop has taken the result of the later task and then the result of the
\* earlier one, has drawn again, and shows the later one.
C30_Witness ==
    /\ app.pc = "select"
    /\ Len(delivered) = 2
    /\ delivered[2].instant < delivered[1].instant
    /\ app.jq_output.instant = delivered[1].instant
    /\ JqOutput_empty(0).instant < app.jq_output.instant

\* C31: once Enter has been handled the session can always end, whatever the
\* tasks are doing, and the step that ends it returns the content of the
\* current result as it is at that moment; until then the loop takes nothing
\* from the channel.
C31_CommitNeverWaits ==
    /\ [](app.pc = "sleep" => ENABLED AppCommit)
    /\ [][app.pc = "sleep" =>
             \/ /\ app' = app
                /\ delivered' = delivered
             \/ /\ app'.pc = "done"
                /\ app'.returned = Returned("commit", Ok(JqOutput_value(app.jq_output)))
                /\ CliArgs_run("ok", app'.returned.value.result, "ok").written =
                       Some(JqOutput_value(app.jq_output))]_vars

\* The session has ended by a commit with the result of the first task while
\* the task of the last edit is still running.
C31_Witness ==
    /\ app.pc = "done"
    /\ app.returned = Returned("commit", Ok(<<<<46>>, CRLF>>))
    /\ Len(procs) = 2
    /\ procs[2].status = "running"
    /\ procs[2].query # <<>>

\* C32: a render changes the scroll state of the pane only by setting the
\* page size to the size of the rectangle: the offset and the content size
\* are the same after it as before.
C32_RenderKeepsView ==
    [][frame'.drawn =>
           /\ lines'.scroll_state.offset = lines.scroll_state.offset
           /\ lines'.scroll_state.content_size = lines.scroll_state.content_size
           /\ lines'.scroll_state.page_size = as_size(frame'.rect)]_vars

\* A render has drawn a pane that is scrolled on both axes, in a rectangle of
\* another size than the page had at first.
C32_Witness ==
    /\ frame.drawn
    /\ lines.scroll_state.offset.x > 0
    /\ lines.scroll_state.offset.y > 0
    /\ as_size(frame.rect) = Size(MaxPage, MaxPage)
    /\ frame.offset = lines.scroll_state.offset

\* C33: one scroll call brings the offset within the bound on the axis it
\* scrolls, wherever the offset was before, and leaves the offset on the other
\* axis and both sizes as they were.
C33_ScrollRestoresBoundOnItsAxis ==
    [][mouse'.some =>
        LET before == scroll_state
            after == scroll_state'
            vertical == mouse'.value.kind \in {"ScrollUp", "ScrollDown"}
        IN  /\ after.content_size = before.content_size
            /\ after.page_size = before.page_size
            /\ vertical =>
                   /\ after.offset.y <= Max(0, after.content_size.height - after.page_size.height)
                   /\ after.offset.x = before.offset.x
            /\ ~vertical =>
                   /\ after.offset.x <= Max(0, after.content_size.width - after.page_size.width)
                   /\ after.offset.y = before.offset.y]_vars

\* A scroll_down has just run on a view whose offset is beyond the bound on
\* both axes before it: offset.y is within the bound again, offset.x is still
\* out of range.
C33_Witness ==
    /\ mouse = Some([kind |-> "ScrollDown"])
    /\ scroll_state.offset.y <= max_offset_y(scroll_state)
    /\ scroll_state.offset.x > max_offset_x(scroll_state)

\* C34: when the content exceeds the page on an axis and the offset is within
\* [0, content - page], the thumb of that axis lies inside its track: it starts
\* at or after the track start and ends at or before the track end.
C34_ThumbInsideTrack ==
    frame.drawn =>
        /\ (/\ frame.vertical.some
            /\ frame.offset.y <= frame.content_size.height - frame.rect.height) =>
               LET thumb == frame.vertical.value.thumb
               IN  /\ thumb.y >= frame.rect.y
                   /\ thumb.y + thumb.height <= frame.rect.y + frame.rect.height
        /\ (/\ frame.horizontal.some
            /\ frame.offset.x <= frame.content_size.width - frame.rect.width) =>
               LET thumb == frame.horizontal.value.thumb
               IN  /\ thumb.x >= frame.rect.x
                   /\ thumb.x + thumb.width <= frame.rect.x + frame.rect.width

(***************************************************************************)
(* The two editable fields and their focus: LineEditorSet over two         *)
(* TextAreas, and TextStateSet over two TextStates.                        *)
(***************************************************************************)
\* Bound: the length of the text of a field.
MaxFieldLen == 2

\* Bound: the edits a TextArea remembers (LineEditor::MAX_HISTORIES, 2048 in
\* the source); the oldest edit is dropped when one more arrives.
MaxHistories == 1

STYLE_FOCUSED == "REVERSED"

STYLE_UNFOCUSED == "default"

\* The key events LineEditorSet::handle_key_event and TextState tell apart.
FocusKeys ==
    {[code |-> "Char", char |-> "a"]}
    \cup {[code |-> k, char |-> ""] : k \in {"Backspace", "Left", "Tab", "Up", "Down"}}

\* LineEditor::new: the text, the cursor at its end, the cursor style that
\* records the focus, and an empty history.
LineEditor_new(focused, value) ==
    [text |-> value,
     cursor |-> Len(value),
     cursor_style |-> IF focused THEN STYLE_FOCUSED ELSE STYLE_UNFOCUSED,
     edits |-> <<>>,
     index |-> 0]

LineEditor_is_focused(e) == e.cursor_style = STYLE_FOCUSED

LineEditor_toggle_focus(e) ==
    [e EXCEPT !.cursor_style = IF LineEditor_is_focused(e)
                               THEN STYLE_UNFOCUSED ELSE STYLE_FOCUSED]

\* History::push of the TextArea: the oldest edit leaves a full history, the
\* undone edits are dropped, the new edit is the last one.
History_push(e, edit) ==
    LET full == Len(e.edits) = MaxHistories
        edits1 == IF full THEN Tail(e.edits) ELSE e.edits
        index1 == IF full THEN Max(e.index - 1, 0) ELSE e.index
        edits2 == IF index1 < Len(edits1) THEN SubSeq(edits1, 1, index1) ELSE edits1
    IN  [e EXCEPT !.edits = Append(edits2, edit), !.index = index1 + 1]

\* TextArea::undo: the edit before the index is taken back.
TextArea_undo(e) ==
    IF e.index = 0 THEN [editor |-> e, modified |-> FALSE]
    ELSE LET edit == e.edits[e.index]
         IN  [editor |-> [e EXCEPT !.text = edit.before.text,
                                   !.cursor = edit.before.cursor,
                                   !.index = e.index - 1],
              modified |-> TRUE]

\* TextArea::redo: the edit at the index is made again.
TextArea_redo(e) ==
    IF e.index = Len(e.edits) THEN [editor |-> e, modified |-> FALSE]
    ELSE LET edit == e.edits[e.index + 1]
         IN  [editor |-> [e EXCEPT !.text = edit.after.text,
                                   !.cursor = edit.after.cursor,
                                   !.index = e.index + 1],
              modified |-> TRUE]

\* TextArea::input: a character is inserted at the cursor and Backspace
\* removes the one before it, both remembered as an edit; Left moves the
\* cursor.
TextArea_input(e, key) ==
    LET v == e.text
        pos == e.cursor
        before == [text |-> v, cursor |-> pos]
    IN  CASE key.code = "Char" ->
                 LET after == [text |-> SubSeq(v, 1, pos) \o <<key.char>>
                                          \o SubSeq(v, pos + 1, Len(v)),
                               cursor |-> pos + 1]
                 IN  [editor |-> History_push([e EXCEPT !.text = after.text,
                                                        !.cursor = after.cursor],
                                              [before |-> before, after |-> after]),
                      modified |-> TRUE]
          [] key.code = "Backspace" /\ pos > 0 ->
                 LET after == [text |-> SubSeq(v, 1, pos - 1) \o SubSeq(v, pos + 1, Len(v)),
                               cursor |-> pos - 1]
                 IN  [editor |-> History_push([e EXCEPT !.text = after.text,
                                                        !.cursor = after.cursor],
                                              [before |-> before, after |-> after]),
                      modified |-> TRUE]
          [] key.code = "Left" ->
                 [editor |-> [e EXCEPT !.cursor = Max(pos - 1, 0)], modified |-> FALSE]
          [] OTHER -> [editor |-> e, modified |-> FALSE]

\* LineEditorSet::new: the filter is focused and the flags are not.
LineEditorSet_new(flags, initial_filter) ==
    [cli_flags |-> LineEditor_new(FALSE, flags),
     filter |-> LineEditor_new(TRUE, IF initial_filter.some THEN initial_filter.value ELSE <<>>)]

\* A toggle that reaches the filter only.
LineEditorSet_toggle_focus_filter_only(set) ==
    [set EXCEPT !.filter = LineEditor_toggle_focus(@)]

LineEditorSet_toggle_focus(set) ==
    [set EXCEPT !.cli_flags = LineEditor_toggle_focus(@),
                !.filter = LineEditor_toggle_focus(@)]

\* LineEditorSet::active_mut: the name of the field the keys go to.
active_mut(set) == IF LineEditor_is_focused(set.filter) THEN "filter" ELSE "cli_flags"

\* LineEditorSet::handle_key_event: the set after the key, and whether the
\* content changed.
LineEditorSet_handle_key_event(set, key) ==
    LET active == active_mut(set)
        r == CASE key.code = "Up" -> TextArea_undo(set[active])
               [] key.code = "Down" -> TextArea_redo(set[active])
               [] OTHER -> TextArea_input(set[active], key)
    IN  IF key.code = "Tab"
        THEN [set |-> LineEditorSet_toggle_focus(set), changed |-> FALSE]
        ELSE [set |-> [set EXCEPT ![active] = r.editor], changed |-> r.modified]

\* TextStateSet::text_state: the value, the cursor at its end, the focus.
text_state(focus_state, value) ==
    [value |-> value, position |-> Len(value), focus_state |-> focus_state]

\* TextStateSet::new: the query is focused and the flags are not.
TextStateSet_new(flags, initial_query) ==
    [flags |-> text_state("Unfocused", flags),
     query |-> text_state("Focused", IF initial_query.some THEN initial_query.value ELSE <<>>)]

is_focused(ts) == ts.focus_state = "Focused"

\* Any::toggle_focus: a focused TextState is blurred, another is focused.
toggle_focus(ts) ==
    [ts EXCEPT !.focus_state = IF is_focused(ts) THEN "Unfocused" ELSE "Focused"]

TextStateSet_toggle_focus(set) ==
    [set EXCEPT !.flags = toggle_focus(@), !.query = toggle_focus(@)]

\* TextStateSet::handle_key_event: the key goes to the query if it is focused
\* and to the flags otherwise; the result tells whether the hash changed.
TextStateSet_handle_key_event(set, key) ==
    LET name == IF is_focused(set.query) THEN "query" ELSE "flags"
        ts == set[name]
        r == TextState_handle_key_event([value |-> ts.value, position |-> ts.position], key)
        after == [ts EXCEPT !.value = r.value, !.position = r.position]
    IN  [set |-> [set EXCEPT ![name] = after],
         changed |-> hash_code(ts) # hash_code(after)]

\* The session owns one of the two sets, according to its revision.
FocusInit ==
    /\ app \in {[line_editor_set |-> LineEditorSet_new(<<>>, None), key_event |-> None],
                [text_state_set |-> TextStateSet_new(<<>>, None), key_event |-> None]}
    /\ clock = 0
    /\ procs = <<>>
    /\ channel = <<>>
    /\ delivered = <<>>
    /\ scroll_state = Idle
    /\ lines = Idle /\ frame = Idle /\ mouse = Idle
    /\ line = Idle /\ sub_call = Idle
    /\ jq_process = Idle

\* A key event handed to the LineEditorSet.
LineEditorSetKey ==
    /\ "line_editor_set" \in DOMAIN app
    /\ \E key \in FocusKeys :
          LET r == LineEditorSet_handle_key_event(app.line_editor_set, key)
          IN  /\ Len(r.set.filter.text) <= MaxFieldLen
              /\ Len(r.set.cli_flags.text) <= MaxFieldLen
              /\ app' = [app EXCEPT !.line_editor_set = r.set,
                                    !.key_event = Some([code |-> key.code,
                                                        changed |-> r.changed])]
    /\ UNCHANGED <<clock, procs, channel, delivered, scrollVars, renderVars,
                   substrVars, procVars>>

\* A key event handed to the owner of the TextStateSet: Tab toggles the
\* focus, every other key goes to TextStateSet::handle_key_event.
TextStateSetKey ==
    /\ "text_state_set" \in DOMAIN app
    /\ \E key \in FocusKeys :
          LET r == IF key.code = "Tab"
                   THEN [set |-> TextStateSet_toggle_focus(app.text_state_set),
                         changed |-> FALSE]
                   ELSE TextStateSet_handle_key_event(app.text_state_set, key)
          IN  /\ Len(r.set.query.value) <= MaxFieldLen
              /\ Len(r.set.flags.value) <= MaxFieldLen
              /\ app' = [app EXCEPT !.text_state_set = r.set,
                                    !.key_event = Some([code |-> key.code,
                                                        changed |-> r.changed])]
    /\ UNCHANGED <<clock, procs, channel, delivered, scrollVars, renderVars,
                   substrVars, procVars>>

FocusNext ==
    \/ LineEditorSetKey
    \/ TextStateSetKey

SpecFocus == FocusInit /\ [][FocusNext]_vars

\* The focus of the two fields of the set, as a pair <<query, flags>>.
FocusOf(a) ==
    IF "line_editor_set" \in DOMAIN a
    THEN <<LineEditor_is_focused(a.line_editor_set.filter),
           LineEditor_is_focused(a.line_editor_set.cli_flags)>>
    ELSE <<is_focused(a.text_state_set.query), is_focused(a.text_state_set.flags)>>

\* The text of the two fields of the set, as a pair <<query, flags>>.
TextOf(a) ==
    IF "line_editor_set" \in DOMAIN a
    THEN <<a.line_editor_set.filter.text, a.line_editor_set.cli_flags.text>>
    ELSE <<a.text_state_set.query.value, a.text_state_set.flags.value>>

\* C35: exactly one of the two fields is focused in every state; at first it
\* is the query; Tab flips both and changes no text; any other key leaves the
\* focus alone and leaves the text of the field that is not focused unchanged.
C35_ExactlyOneFocused ==
    /\ FocusOf(app) = <<TRUE, FALSE>>
    /\ [](FocusOf(app)[1] # FocusOf(app)[2])
    /\ [][app'.key_event.some =>
            LET was == FocusOf(app)
                now == FocusOf(app')
                unfocused == IF was[1] THEN 2 ELSE 1
            IN  IF app'.key_event.value.code = "Tab"
                THEN /\ now = <<~was[1], ~was[2]>>
                     /\ TextOf(app') = TextOf(app)
                ELSE /\ now = was
                     /\ TextOf(app')[unfocused] = TextOf(app)[unfocused]]_vars

\* After a Tab the flags of the LineEditorSet were edited while the filter
\* kept the text typed before the Tab.
C35_Witness ==
    /\ "line_editor_set" \in DOMAIN app
    /\ FocusOf(app) = <<FALSE, TRUE>>
    /\ TextOf(app) = <<<<"a">>, <<"a", "a">>>>
    /\ app.key_event.some /\ app.key_event.value.code = "Char"

(***************************************************************************)
(* JqProcessBuilder::build (jq_process.rs) on its own: it tokenizes the    *)
(* flags text with shlex::split before it makes the Command, returns an    *)
(* Err if the text does not split, and hands the query to the Command as   *)
(* one argument.  jq_process holds the two texts of a builder and what its *)
(* build returned.                                                         *)
(***************************************************************************)
\* Bound: the length of the flags text.
MaxFlagsLen == 3

\* A word character, a blank and a single quote.
FlagChars == {"a", " ", "'"}

\* shlex::split, on blanks and single quotes: the words, or None if a quote is
\* left open.
RECURSIVE shlex_words(_, _, _, _, _, _)
shlex_words(text, i, word, in_word, in_quote, words) ==
    IF i > Len(text)
    THEN IF in_quote THEN None
         ELSE Some(IF in_word THEN Append(words, word) ELSE words)
    ELSE LET c == text[i]
         IN  IF in_quote
             THEN IF c = "'" THEN shlex_words(text, i + 1, word, TRUE, FALSE, words)
                  ELSE shlex_words(text, i + 1, Append(word, c), TRUE, TRUE, words)
             ELSE IF c = "'" THEN shlex_words(text, i + 1, word, TRUE, TRUE, words)
             ELSE IF c = " "
                  THEN IF in_word
                       THEN shlex_words(text, i + 1, <<>>, FALSE, FALSE, Append(words, word))
                       ELSE shlex_words(text, i + 1, word, FALSE, FALSE, words)
             ELSE shlex_words(text, i + 1, Append(word, c), TRUE, FALSE, words)

shlex_split(text) == shlex_words(text, 1, <<>>, FALSE, FALSE, <<>>)

\* A build that runs the program without arguments if the flags do not split.
JqProcessBuilder_build_ignores_split(clk, flags, query) ==
    LET args == shlex_split(flags)
    IN  Ok([instant |-> Instant_now(clk),
            query |-> IF query = <<>> THEN DEFAULT_QUERY ELSE query,
            status |-> "running",
            content |-> <<>>,
            args |-> IF args.some THEN args.value ELSE <<>>])

\* JqProcessBuilder::build with its flags: the instant is read, the flags are
\* split, and only then is the Command made.
JqProcessBuilder_build(clk, flags, query) ==
    LET args == shlex_split(flags)
    IN  IF ~args.some THEN Err("unable to split flags for the shell")
        ELSE Ok([instant |-> Instant_now(clk),
                 query |-> IF query = <<>> THEN DEFAULT_QUERY ELSE query,
                 status |-> "running",
                 content |-> <<>>,
                 args |-> args.value])

\* The texts of up to n characters a field can hold.
Texts(n) == UNION {[1..k -> FlagChars] : k \in 0..n}

\* A JqProcessBuilder with its flags and its query, not yet built.
FlagsInit ==
    /\ \E flags \in Texts(MaxFlagsLen), query \in Texts(MaxQueryLen) :
           jq_process = [flags |-> flags, query |-> query, built |-> None]
    /\ clock = 0
    /\ procs = <<>>
    /\ channel = <<>>
    /\ delivered = <<>>
    /\ app = Idle
    /\ scroll_state = Idle
    /\ lines = Idle /\ frame = Idle /\ mouse = Idle
    /\ line = Idle /\ sub_call = Idle

\* JqProcessBuilder::build, which consumes the builder.
FlagsBuild ==
    /\ ~jq_process.built.some
    /\ jq_process' = [jq_process EXCEPT
                          !.built = Some(JqProcessBuilder_build(clock, jq_process.flags,
                                                                jq_process.query))]
    /\ clock' = Instant_now(clock)
    /\ UNCHANGED <<app, procs, channel, delivered, scrollVars, renderVars, substrVars>>

FlagsNext ==
    \/ FlagsBuild

SpecFlags == FlagsInit /\ [][FlagsNext]_vars

\* Whether a text of word characters, blanks and single quotes closes every
\* quote it opens.
Tokenizes(text) == Cardinality({i \in 1..Len(text) : text[i] = "'"}) % 2 = 0

MaxInput == 3

\* The outcomes of lines.next_line() of a reader, in order and followed by
\* Ok(None): the i-th is the line numbered i or an I/O error.
Readers ==
    UNION {[1..n -> {"line", "error"}] : n \in 0..MaxInput}

\* lines.next_line().await.transpose() at the given position of the reader.
next_line(reader, i) ==
    IF i > Len(reader) THEN None
    ELSE Some(IF reader[i] = "line" THEN Ok(i) ELSE Err("io"))

\* A VecDeque that takes the new line at its front.
push_front(deque, value) == <<value>> \o deque

\* VecDeque::push_back
push_back(deque, value) == Append(deque, value)

\* Input::from: an empty Input, and the read_lines task spawned with a clone
\* of its sender.
InputInit ==
    /\ \E reader \in Readers :
          procs = <<[pc |-> "next_line", reader |-> reader, position |-> 1, line_res |-> None]>>
    /\ channel = <<>>
    /\ lines = <<>>
    /\ delivered = <<>>
    /\ app = [pc |-> "idle", receiver |-> "open"]
    /\ clock = 0
    /\ scroll_state = Idle
    /\ frame = Idle /\ mouse = Idle
    /\ line = Idle /\ sub_call = Idle
    /\ jq_process = Idle

\* read_lines, the head of its loop: the next outcome of the reader is
\* awaited; None ends the loop and the task, anything else enters the body.
ReadLinesNext ==
    /\ procs[1].pc = "next_line"
    /\ LET line_res == next_line(procs[1].reader, procs[1].position)
       IN  procs' = IF line_res.some
                    THEN <<[procs[1] EXCEPT !.pc = "send",
                                            !.position = @ + 1,
                                            !.line_res = line_res]>>
                    ELSE <<[procs[1] EXCEPT !.pc = "done"]>>
    /\ UNCHANGED <<app, clock, channel, delivered, lines, frame, mouse,
                   scrollVars, substrVars, procVars>>

\* read_lines, the body of its loop: the outcome is sent, a failed send is
\* logged, and the loop goes on.
ReadLinesSend ==
    /\ procs[1].pc = "send"
    /\ channel' = IF app.receiver = "open"
                  THEN Append(channel, procs[1].line_res.value)
                  ELSE channel
    /\ procs' = <<[procs[1] EXCEPT !.pc = "next_line", !.line_res = None]>>
    /\ UNCHANGED <<app, clock, delivered, lines, frame, mouse,
                   scrollVars, substrVars, procVars>>

\* next_lines is called.
NextLinesCall ==
    /\ app.pc = "idle"
    /\ app.receiver = "open"
    /\ app' = [app EXCEPT !.pc = "try_recv"]
    /\ UNCHANGED <<clock, procs, channel, delivered, lines, frame, mouse,
                   scrollVars, substrVars, procVars>>

\* next_lines, one turn of its loop with a result in the channel: a line is
\* pushed to the back of lines, an error is returned.  The Input keeps a
\* sender, so try_recv never reports a closed channel.
NextLinesRecv ==
    /\ app.pc = "try_recv"
    /\ channel # <<>>
    /\ channel' = Tail(channel)
    /\ LET line_res == Head(channel)
       IN  IF line_res.ok
           THEN /\ lines' = push_back(lines, line_res.value)
                /\ UNCHANGED <<app, delivered>>
           ELSE /\ delivered' = Append(delivered, Err(line_res.error))
                /\ app' = [app EXCEPT !.pc = "idle"]
                /\ UNCHANGED lines
    /\ UNCHANGED <<clock, procs, frame, mouse, scrollVars, substrVars, procVars>>

\* next_lines with the channel empty: the loop is left; with no line the
\* call is pending for good, otherwise the lines are taken and returned.
NextLinesBreak ==
    /\ app.pc = "try_recv"
    /\ channel = <<>>
    /\ IF lines = <<>>
       THEN /\ app' = [app EXCEPT !.pc = "pending"]
            /\ UNCHANGED <<delivered, lines>>
       ELSE /\ delivered' = Append(delivered, Ok(lines))
            /\ lines' = <<>>
            /\ app' = [app EXCEPT !.pc = "idle"]
    /\ UNCHANGED <<clock, procs, channel, frame, mouse, scrollVars, substrVars, procVars>>

\* The pending future of next_lines is dropped by its caller.
NextLinesDrop ==
    /\ app.pc = "pending"
    /\ app' = [app EXCEPT !.pc = "idle"]
    /\ UNCHANGED <<clock, procs, channel, delivered, lines, frame, mouse,
                   scrollVars, substrVars, procVars>>

\* The Input is dropped between two calls, and its receiver with it.
InputDrop ==
    /\ app.pc = "idle"
    /\ app.receiver = "open"
    /\ app' = [app EXCEPT !.receiver = "closed"]
    /\ channel' = <<>>
    /\ lines' = <<>>
    /\ UNCHANGED <<clock, procs, delivered, frame, mouse, scrollVars, substrVars, procVars>>

InputNext ==
    \/ ReadLinesNext
    \/ ReadLinesSend
    \/ NextLinesCall
    \/ NextLinesRecv
    \/ NextLinesBreak
    \/ NextLinesDrop
    \/ InputDrop

SpecInput == InputInit /\ [][InputNext]_vars

\* The lines among a sequence of results, in order.
RECURSIVE OkValues(_)
OkValues(results) ==
    IF results = <<>> THEN <<>>
    ELSE (IF Head(results).ok THEN <<Head(results).value>> ELSE <<>>)
         \o OkValues(Tail(results))

\* The batches one after the other.
RECURSIVE Concat(_)
Concat(batches) ==
    IF batches = <<>> THEN <<>> ELSE Head(batches) \o Concat(Tail(batches))

\* The lines the task has read so far, in read order.
LinesRead ==
    OkValues([i \in 1..(procs[1].position - 1) |-> next_line(procs[1].reader, i).value])

IsPrefix(short, long) ==
    /\ Len(short) <= Len(long)
    /\ SubSeq(long, 1, Len(short)) = short

\* The line the task holds between its read and its send.
InHand ==
    IF procs[1].line_res.some /\ procs[1].line_res.value.ok
    THEN <<procs[1].line_res.value.value>> ELSE <<>>

\* C36: the batches returned by next_lines, one after the other, are a prefix
\* of the lines read, in read order and each once; while the Input lives the
\* lines read are exactly those returned, buffered, in the channel or in the
\* hand of the task, in that order; and no returned batch is empty.
C36_NothingLostDuplicatedReordered ==
    /\ IsPrefix(Concat(OkValues(delivered)), LinesRead)
    /\ app.receiver = "open" =>
           Concat(OkValues(delivered)) \o lines \o OkValues(channel) \o InHand = LinesRead
    /\ \A i \in 1..Len(delivered) : delivered[i].ok => delivered[i].value # <<>>

\* Three lines were read; the first two came back in one batch, a call went
\* pending on an empty channel, and the third came back in a later batch.
C36_Witness ==
    /\ delivered = <<Ok(<<1, 2>>), Ok(<<3>>)>>
    /\ procs[1].pc = "done"
    /\ app.pc = "pending"

\* C37: the read_lines task ends once it has forwarded an I/O error of
\* next_line, and it ends at the end of the input; a send that fails because
\* the receiver is gone does not end it.
C37_ReaderEndsOnErrorOrEnd ==
    [][/\ (procs[1].pc = "send" /\ ~procs[1].line_res.value.ok /\ procs' # procs) =>
              procs'[1].pc = "done"
       /\ (/\ procs[1].pc = "next_line"
           /\ ~next_line(procs[1].reader, procs[1].position).some
           /\ procs' # procs) =>
              procs'[1].pc = "done"
       /\ (/\ procs[1].pc = "send" /\ procs[1].line_res.value.ok
           /\ app.receiver = "closed"
           /\ procs' # procs) =>
              procs'[1].pc = "next_line"]_vars

====
